---- MODULE Spec2Model ----
(***************************************************************************)
(* MiniStory AI Director: the artifact-consistency core.                   *)
(*                                                                         *)
(*   - duplicate character id repair   (pipeline_steps.py, app.py)         *)
(*   - outfit continuity tracker       (outfit_consistency)                *)
(*   - reference attachment / resolver (scene_description_generation)      *)
(*   - scene image generation ledger   (scene_creation)                    *)
(*                                                                         *)
(* Strings are sequences of one-character strings, so that lower(),        *)
(* substring tests, prefixes, splitting and formatting are computed and    *)
(* not assumed.                                                            *)
(***************************************************************************)
EXTENDS Integers, Sequences, FiniteSets, TLC

VARIABLES
    characters,        \* the character list (registry): sequence of [id, name]
    fix_input,         \* the list as it was before the last duplicate-fix pass
    fix_done,          \* TRUE once fix_duplicate_character_ids has run
    character_outfits,     \* OutfitConsistencyTracker.character_outfits
    outfit_order,          \* the insertion order of character_outfits' keys
    scene_outfit_changes,  \* OutfitConsistencyTracker.scene_outfit_changes
    supplied,              \* per tracked character: the outfit explicitly supplied last
    shot_call,             \* <<>>, or when the tracker call made last was track_shot_outfits:
                           \* <<the shot given, the shot_characters of the shot returned>>
    locations,             \* the location list (registry): sequence of Location dicts
    script,                \* the formatted script tree: sequence of scenes
    session_dir,           \* ProjectManager.session_dir: <<>> (None) or <<dir>>
    ui_current_step,       \* st.session_state.current_step
    disk_dirs,             \* the directories of the session directory on disk
    disk_files,            \* the artifact files of the session directory on disk
    project_info,          \* metadata/project_info.json
    now,                   \* the clock datetime.now() reads
    pm_call,               \* the ProjectManager call made last and whether it raised
    image_files,           \* scene_creation/images: filename -> times written (0: absent)
    video_files,           \* scene_creation/videos: filename -> times written (0: absent)
    generation_progress,   \* SceneImageGenerator.generation_progress (the ledger)
    results_json,          \* scene_generation_results.json: <<>> or <<progress>>
    regen_op,              \* the generation call made last: what it was asked to do
    shot_dialog,           \* the ShotDialog handed to AudioGenerator.generate_shot_audio
    audio_disk,            \* the audio files written to output_dir
    audio_call,            \* <<>> or the last generate_shot_audio call: its results
    audio_made,            \* the audio files saved, each with the shot it was generated for
    scenes_data,           \* the scenes handed to extract_locations_from_scenes
    extracted,             \* <<>> or <<the list extract_locations_from_scenes returned>>
    extracted_from,        \* per returned Location: the scene Location string it is from
    dialog_file,           \* dialog_mapping/shot_dialog_mapping.json: <<>> or <<document>>
    assembly_result,       \* <<>> or what the last assemble_full_video call loaded and returned
    audio_listing,         \* <<>> or the last get_shot_audio_files call: shot_id and files
    existing_videos,       \* <<>> or <<the last load_existing_generation_results of the videos>>
    attach_state           \* the attachment that ran last against the registries as
                           \* they are ("characters", "locations", "all"), "none"
                           \* before any, "stale" once a registry changed since

fixVars == <<characters, fix_input, fix_done>>

outfitVars == <<character_outfits, outfit_order, scene_outfit_changes, supplied, shot_call>>

attachVars == <<locations, script, attach_state>>

regenVars == <<image_files, video_files, generation_progress, results_json, regen_op>>

sessionVars == <<session_dir, ui_current_step, disk_dirs, disk_files, project_info,
                 now, pm_call>>

audioVars == <<shot_dialog, audio_disk, audio_call, audio_made>>

extractVars == <<scenes_data, extracted, extracted_from>>

viewVars == <<dialog_file, assembly_result, audio_listing, existing_videos>>

vars == <<dialog_file, assembly_result, audio_listing, audio_made, existing_videos,
          shot_dialog, audio_disk, audio_call, scenes_data, extracted, extracted_from,
          session_dir, ui_current_step, disk_dirs, disk_files, project_info, now, pm_call,
          image_files, video_files, generation_progress, results_json, regen_op,
          characters, fix_input, fix_done,
          character_outfits, outfit_order, scene_outfit_changes, supplied, shot_call,
          locations, script, attach_state>>

----------------------------------------------------------------------------
(* Strings                                                                 *)

UpperCase == <<"A", "B", "C", "D", "E", "F", "G", "H", "I", "J", "K", "L", "M",
               "N", "O", "P", "Q", "R", "S", "T", "U", "V", "W", "X", "Y", "Z">>

LowerCase == <<"a", "b", "c", "d", "e", "f", "g", "h", "i", "j", "k", "l", "m",
               "n", "o", "p", "q", "r", "s", "t", "u", "v", "w", "x", "y", "z">>

\* str.lower() on one character
LowerChar(c) ==
    IF \E i \in 1..Len(UpperCase) : UpperCase[i] = c
    THEN LowerCase[CHOOSE i \in 1..Len(UpperCase) : UpperCase[i] = c]
    ELSE c

\* str.lower()
Lower(s) == [i \in 1..Len(s) |-> LowerChar(s[i])]

\* Python's `a in b` on strings: a occurs in b as a contiguous substring
\* (the empty string occurs in every string)
Contains(b, a) ==
    \E k \in 0..(Len(b) - Len(a)) :
        \A i \in 1..Len(a) : b[k + i] = a[i]

\* str.startswith
StartsWith(s, p) ==
    /\ Len(p) <= Len(s)
    /\ \A i \in 1..Len(p) : s[i] = p[i]

\* str.replace(old, new), old not empty
RECURSIVE Replace(_, _, _)
Replace(s, old, new) ==
    IF Len(s) < Len(old) THEN s
    ELSE IF SubSeq(s, 1, Len(old)) = old
         THEN new \o Replace(SubSeq(s, Len(old) + 1, Len(s)), old, new)
         ELSE <<s[1]>> \o Replace(Tail(s), old, new)

\* str.split(sep), sep not empty: always at least one part
RECURSIVE SplitFrom(_, _, _)
SplitFrom(s, sep, part) ==
    IF s = <<>> THEN <<part>>
    ELSE IF Len(s) >= Len(sep) /\ SubSeq(s, 1, Len(sep)) = sep
         THEN <<part>> \o SplitFrom(SubSeq(s, Len(sep) + 1, Len(s)), sep, <<>>)
         ELSE SplitFrom(Tail(s), sep, Append(part, s[1]))

Split(s, sep) == SplitFrom(s, sep, <<>>)

Digits == <<"0", "1", "2", "3", "4", "5", "6", "7", "8", "9">>

DigitChar(d) == Digits[d + 1]

\* str(n) for n >= 0
RECURSIVE Decimal(_)
Decimal(n) ==
    IF n < 10 THEN <<DigitChar(n)>>
    ELSE Decimal(n \div 10) \o <<DigitChar(n % 10)>>

\* f"{n:02d}": decimal, zero-padded on the left to at least two digits
Pad02(n) ==
    IF Len(Decimal(n)) < 2 THEN <<"0">> \o Decimal(n) ELSE Decimal(n)

\* f"char_{i+1:02d}" where pos = i + 1 is the 1-indexed position
FormatCharId(pos) == <<"c", "h", "a", "r", "_">> \o Pad02(pos)

----------------------------------------------------------------------------
(* Duplicate character id repair                                           *)

\* Largest character list the model draws
MaxChars == 3

\* ids as the script generator may produce them
FixIds == { FormatCharId(1), FormatCharId(2), FormatCharId(3), <<"x">> }

PositionNames == << <<"a">>, <<"b">>, <<"a", "b">>, <<"b", "a">> >>

CharacterLists ==
    UNION { [1..n -> FixIds] : n \in 0..MaxChars }

\* the character dicts of a list of ids; names tell the entries apart
AsCharacters(ids) ==
    [i \in 1..Len(ids) |-> [id |-> ids[i], name |-> PositionNames[((i - 1) % 4) + 1]]]

\* the loop body of fix_duplicate_character_ids at index i (enumerate's i + 1):
\* the id the entry ends with, given the ids seen so far
FixedId(char_id, pos, seen_ids) ==
    IF char_id \in seen_ids THEN FormatCharId(pos) ELSE char_id

RECURSIVE FixLoop(_, _, _)
FixLoop(chars, pos, seen_ids) ==
    IF pos > Len(chars) THEN chars
    ELSE LET char_id == FixedId(chars[pos].id, pos, seen_ids)
         IN  FixLoop([chars EXCEPT ![pos].id = char_id], pos + 1,
                     seen_ids \cup {char_id})

fix_duplicate_character_ids(chars) ==
    IF chars = <<>> THEN chars ELSE FixLoop(chars, 1, {})

\* character_generation_step: characters = fix_duplicate_character_ids(characters)
FixDuplicateCharacterIds ==
    /\ fix_input' = characters
    /\ characters' = fix_duplicate_character_ids(characters)
    /\ fix_done' = TRUE
    /\ UNCHANGED <<viewVars, audioVars, extractVars, sessionVars, regenVars, outfitVars, attachVars>>

IdleFix ==
    /\ characters = <<>>
    /\ fix_input = <<>>
    /\ fix_done = FALSE

PairwiseDistinctIds(chars) ==
    \A i, j \in 1..Len(chars) : i # j => chars[i].id # chars[j].id

----------------------------------------------------------------------------
(* Outfit continuity tracker                                               *)

\* Longest outfit_history the model lets a character reach
MaxHistory == 2

Str_student   == <<"s", "t", "u", "d", "e", "n", "t">>
Str_college   == <<"c", "o", "l", "l", "e", "g", "e">>
Str_detective == <<"d", "e", "t", "e", "c", "t", "i", "v", "e">>
Str_inspector == <<"i", "n", "s", "p", "e", "c", "t", "o", "r">>
Str_police    == <<"p", "o", "l", "i", "c", "e">>

\* outfit_templates[...]['description']
StudentOutfit   == "Casual college attire - comfortable jeans, casual t-shirt, sneakers"
DetectiveOutfit == "Professional detective attire - dark blazer, dress shirt, dress pants, dress shoes"
InspectorOutfit == "Police inspector uniform - crisp police uniform with badges"
MainOutfit      == "Smart casual attire - well-fitted clothes reflecting personality"

\* _generate_initial_outfit: the ordered keyword buckets
_generate_initial_outfit(character) ==
    LET role == Lower(character.role)
        description == Lower(character.overall_description)
    IN  IF Contains(role, Str_student) \/ Contains(description, Str_college)
        THEN StudentOutfit
        ELSE IF Contains(role, Str_detective)
        THEN DetectiveOutfit
        ELSE IF Contains(role, Str_inspector) \/ Contains(description, Str_police)
        THEN InspectorOutfit
        ELSE MainOutfit

\* OutfitState(...) as initialize_character_outfits builds it
NewOutfitState(char) ==
    [character_name |-> char.name,
     current_outfit |-> _generate_initial_outfit(char),
     last_scene_id  |-> "",
     last_shot_id   |-> "",
     outfit_history |-> <<>>]

\* initialize_character_outfits: later entries of the list overwrite earlier
\* ones with the same id; entries with an empty id are skipped
\* (a dict keeps a key's first insertion position). tr = [co, order, changes].
RECURSIVE InitializeLoop(_, _, _)
InitializeLoop(tr, chars, i) ==
    IF i > Len(chars) THEN tr
    ELSE LET char == chars[i]
             next == IF char.id # ""
                     THEN [tr EXCEPT
                            !.co = [c \in DOMAIN tr.co \cup {char.id} |->
                                      IF c = char.id THEN NewOutfitState(char)
                                      ELSE tr.co[c]],
                            !.order = IF char.id \in DOMAIN tr.co THEN @
                                      ELSE Append(@, char.id)]
                     ELSE tr
         IN  InitializeLoop(next, chars, i + 1)

initialize_character_outfits(tr, chars) == InitializeLoop(tr, chars, 1)

\* the history entry _update_outfit_state appends
HistoryEntry(state) ==
    [outfit    |-> state.current_outfit,
     scene_id  |-> state.last_scene_id,
     shot_id   |-> state.last_shot_id,
     timestamp |-> Len(state.outfit_history)]

\* _update_outfit_state with the history overwritten instead of appended to
Mutant_update_outfit_state(tr, char_id, new_outfit, scene_id, shot_id) ==
    IF char_id \in DOMAIN tr.co
    THEN [tr EXCEPT
            !.co[char_id].outfit_history = <<HistoryEntry(tr.co[char_id])>>,
            !.co[char_id].current_outfit = new_outfit.outfit_description,
            !.co[char_id].last_scene_id = scene_id,
            !.co[char_id].last_shot_id = shot_id]
    ELSE tr

\* _update_outfit_state on a tracker tr = [co, order, changes]
_update_outfit_state(tr, char_id, new_outfit, scene_id, shot_id) ==
    IF char_id \in DOMAIN tr.co
    THEN LET state == tr.co[char_id]
             changed == [state EXCEPT
                            !.outfit_history = Append(@, HistoryEntry(state)),
                            !.current_outfit = new_outfit.outfit_description,
                            !.last_scene_id = scene_id,
                            !.last_shot_id = shot_id]
             listed == IF scene_id \in DOMAIN tr.changes
                       THEN tr.changes[scene_id] ELSE <<>>
             appended == IF \E k \in 1..Len(listed) : listed[k] = char_id
                         THEN listed ELSE Append(listed, char_id)
         IN  [tr EXCEPT
                !.co = [tr.co EXCEPT ![char_id] = changed],
                !.changes = [s \in DOMAIN tr.changes \cup {scene_id} |->
                               IF s = scene_id THEN appended ELSE tr.changes[s]]]
    ELSE tr

\* _generate_consistent_outfit for a tracked character
_generate_consistent_outfit(co, char_id) ==
    [outfit_description |-> co[char_id].current_outfit,
     outfit_context |-> IF co[char_id].last_scene_id # ""
                        THEN <<"Consistent with previous appearance in",
                               co[char_id].last_scene_id>>
                        ELSE <<"Consistent with previous appearance in",
                               "initial setup">>]

\* track_scene_outfits: r = [tr, out], out the Scene_Characters processed so far.
\* detailed_outfit is <<>> for None and <<outfit>> otherwise.
RECURSIVE TrackSceneLoop(_, _, _, _)
TrackSceneLoop(r, scene_id, scene_chars, i) ==
    IF i > Len(scene_chars) THEN r
    ELSE LET scene_char == scene_chars[i]
             char_id == scene_char.character_id
             next ==
                IF char_id \in DOMAIN r.tr.co
                THEN IF scene_char.detailed_outfit # <<>>
                     THEN [tr |-> _update_outfit_state(r.tr, char_id,
                                     scene_char.detailed_outfit[1], scene_id, ""),
                           out |-> Append(r.out, scene_char)]
                     ELSE [tr |-> r.tr,
                           out |-> Append(r.out,
                                      [scene_char EXCEPT !.detailed_outfit =
                                          <<_generate_consistent_outfit(r.tr.co, char_id)>>])]
                ELSE [tr |-> r.tr, out |-> Append(r.out, scene_char)]
         IN  TrackSceneLoop(next, scene_id, scene_chars, i + 1)

track_scene_outfits(tr, scene) ==
    TrackSceneLoop([tr |-> tr, out |-> <<>>], scene.scene_id, scene.scene_characters, 1)

\* _find_character_id_by_name: first tracked character, in dict order, whose
\* name equals or contains the reference (case-insensitively); <<>> is None.
\* order is the insertion order of character_outfits.
RECURSIVE FindByNameFrom(_, _, _, _)
FindByNameFrom(co, order, char_name, i) ==
    IF i > Len(order) THEN <<>>
    ELSE LET name == Lower(co[order[i]].character_name)
         IN  IF name = Lower(char_name) \/ Contains(name, Lower(char_name))
             THEN <<order[i]>>
             ELSE FindByNameFrom(co, order, char_name, i + 1)

_find_character_id_by_name(tr, char_name) ==
    FindByNameFrom(tr.co, tr.order, char_name, 1)

\* track_shot_outfits over shot_characters, with the fallback outfit of
\* _generate_consistent_outfit synthesized for an entry that is not tracked
RECURSIVE MutantSynthesizingShotCharsLoop(_, _, _, _)
MutantSynthesizingShotCharsLoop(r, shot_id, shot_chars, i) ==
    IF i > Len(shot_chars) THEN r
    ELSE LET shot_char == shot_chars[i]
             char_id == shot_char.character_id
             next ==
                IF char_id \in DOMAIN r.tr.co
                THEN [tr |-> [r.tr EXCEPT !.co[char_id].last_shot_id = shot_id],
                      out |-> Append(r.out,
                                IF shot_char.outfit_description = ""
                                THEN [shot_char EXCEPT
                                        !.outfit_description =
                                            r.tr.co[char_id].current_outfit,
                                        !.outfit_continuity = "same as scene outfit"]
                                ELSE shot_char)]
                ELSE [tr |-> r.tr,
                      out |-> Append(r.out,
                                [shot_char EXCEPT
                                    !.outfit_description = "Casual everyday clothes"])]
         IN  MutantSynthesizingShotCharsLoop(next, shot_id, shot_chars, i + 1)

\* track_shot_outfits over shot_characters, with the continuity note written
\* and the tracked outfit not copied
RECURSIVE MutantNoteOnlyShotCharsLoop(_, _, _, _)
MutantNoteOnlyShotCharsLoop(r, shot_id, shot_chars, i) ==
    IF i > Len(shot_chars) THEN r
    ELSE LET shot_char == shot_chars[i]
             char_id == shot_char.character_id
             next ==
                IF char_id \in DOMAIN r.tr.co
                THEN [tr |-> [r.tr EXCEPT !.co[char_id].last_shot_id = shot_id],
                      out |-> Append(r.out,
                                IF shot_char.outfit_description = ""
                                THEN [shot_char EXCEPT
                                        !.outfit_continuity = "same as scene outfit"]
                                ELSE shot_char)]
                ELSE [tr |-> r.tr, out |-> Append(r.out, shot_char)]
         IN  MutantNoteOnlyShotCharsLoop(next, shot_id, shot_chars, i + 1)

\* track_shot_outfits, shot_characters given: an entry without an outfit gets
\* the tracked one; every tracked entry moves last_shot_id
RECURSIVE TrackShotCharsLoop(_, _, _, _)
TrackShotCharsLoop(r, shot_id, shot_chars, i) ==
    IF i > Len(shot_chars) THEN r
    ELSE LET shot_char == shot_chars[i]
             char_id == shot_char.character_id
             next ==
                IF char_id \in DOMAIN r.tr.co
                THEN [tr |-> [r.tr EXCEPT !.co[char_id].last_shot_id = shot_id],
                      out |-> Append(r.out,
                                IF shot_char.outfit_description = ""
                                THEN [shot_char EXCEPT
                                        !.outfit_description =
                                            r.tr.co[char_id].current_outfit,
                                        !.outfit_continuity = "same as scene outfit"]
                                ELSE shot_char)]
                ELSE [tr |-> r.tr, out |-> Append(r.out, shot_char)]
         IN  TrackShotCharsLoop(next, shot_id, shot_chars, i + 1)

\* track_shot_outfits, no shot_characters: they are made from focus_characters
RECURSIVE TrackFocusLoop(_, _, _)
TrackFocusLoop(r, focus, i) ==
    IF i > Len(focus) THEN r
    ELSE LET found == _find_character_id_by_name(r.tr, focus[i])
             next ==
                IF found # <<>> /\ found[1] # "" /\ found[1] \in DOMAIN r.tr.co
                THEN [tr |-> r.tr,
                      out |-> Append(r.out,
                                [character_id |-> found[1],
                                 character_name |-> focus[i],
                                 outfit_description |->
                                     r.tr.co[found[1]].current_outfit,
                                 outfit_continuity |-> "consistent with scene"])]
                ELSE r
         IN  TrackFocusLoop(next, focus, i + 1)

track_shot_outfits(tr, shot) ==
    IF shot.shot_characters # <<>>
    THEN TrackShotCharsLoop([tr |-> tr, out |-> <<>>], shot.shot_id,
                            shot.shot_characters, 1)
    ELSE TrackFocusLoop([tr |-> tr, out |-> <<>>], shot.focus_characters, 1)

\* The outfit most recently supplied explicitly for each tracked character
\* (the initial outfit when none was): how the inputs of an operation move it.
\* A scene entry supplies an outfit when it carries a detailed_outfit, a shot
\* entry when its outfit_description is not empty.
RECURSIVE SuppliedByEntries(_, _, _)
SuppliedByEntries(sup, entries, i) ==
    IF i > Len(entries) THEN sup
    ELSE LET e == entries[i]
         IN  SuppliedByEntries(
                IF e.character_id \in DOMAIN sup /\ e.outfit # ""
                THEN [sup EXCEPT ![e.character_id] = e.outfit] ELSE sup,
                entries, i + 1)

SceneEntries(scene) ==
    [i \in 1..Len(scene.scene_characters) |->
        [character_id |-> scene.scene_characters[i].character_id,
         outfit |-> IF scene.scene_characters[i].detailed_outfit = <<>> THEN ""
                    ELSE scene.scene_characters[i].detailed_outfit[1].outfit_description]]

ShotEntries(shot) ==
    [i \in 1..Len(shot.shot_characters) |->
        [character_id |-> shot.shot_characters[i].character_id,
         outfit |-> shot.shot_characters[i].outfit_description]]

RECURSIVE SuppliedByInit(_, _, _)
SuppliedByInit(sup, chars, i) ==
    IF i > Len(chars) THEN sup
    ELSE LET char == chars[i]
         IN  SuppliedByInit(
                IF char.id # ""
                THEN [c \in DOMAIN sup \cup {char.id} |->
                        IF c = char.id THEN _generate_initial_outfit(char) ELSE sup[c]]
                ELSE sup,
                chars, i + 1)

\* process_formatted_script: initialize, then every scene and its shots in order.
\* w = [tr, sup]
RECURSIVE ProcessShots(_, _, _)
ProcessShots(w, shots, i) ==
    IF i > Len(shots) THEN w
    ELSE ProcessShots([tr |-> track_shot_outfits(w.tr, shots[i]).tr,
                       sup |-> SuppliedByEntries(w.sup, ShotEntries(shots[i]), 1)],
                      shots, i + 1)

RECURSIVE ProcessScenes(_, _, _)
ProcessScenes(w, scenes, i) ==
    IF i > Len(scenes) THEN w
    ELSE LET scene == scenes[i]
             after == [tr |-> track_scene_outfits(w.tr, scene).tr,
                       sup |-> SuppliedByEntries(w.sup, SceneEntries(scene), 1)]
         IN  ProcessScenes(ProcessShots(after, scene.shots, 1), scenes, i + 1)

process_formatted_script(w, formatted_script) ==
    ProcessScenes([tr |-> initialize_character_outfits(w.tr, formatted_script.characters),
                   sup |-> SuppliedByInit(w.sup, formatted_script.characters, 1)],
                  formatted_script.scenes, 1)

\* The inputs the model draws ------------------------------------------------

Capitalized(s) == <<UpperCase[CHOOSE i \in 1..26 : LowerCase[i] = s[1]]>> \o Tail(s)

TrackerCharacters ==
    { [id |-> "char_01", name |-> <<"A", "b">>, role |-> Capitalized(Str_student),
       overall_description |-> <<>>],
      [id |-> "char_02", name |-> <<"a">>, role |-> Str_detective,
       overall_description |-> <<>>],
      [id |-> "char_02", name |-> <<"b">>, role |-> <<"h", "e", "r", "o">>,
       overall_description |-> Str_police],
      [id |-> "", name |-> <<"b">>, role |-> <<"h", "e", "r", "o">>,
       overall_description |-> <<>>] }

TrackerCharacterLists ==
    { <<c>> : c \in TrackerCharacters }
        \cup { <<c, d>> : c, d \in { e \in TrackerCharacters : e.id = "char_02" } }
        \cup { <<c, d>> : c \in { e \in TrackerCharacters : e.id = "char_01" },
                          d \in { e \in TrackerCharacters : e.id = "" } }

SceneIds == { "SC_01", "SC_02" }
ShotIds == { "SC1_SH1" }
CharacterRefIds == { "char_01", "char_09" }
OutfitTexts == { "red kurta", "black suit" }
\* Focus_Characters entries: names, or an id as the attachment also accepts
FocusNames == { <<>>, <<"a">>, <<"B">>, <<"z">>, FormatCharId(1) }

DetailedOutfits ==
    { <<>> } \cup
    { <<[outfit_description |-> o, outfit_context |-> <<"given">>]>> : o \in OutfitTexts }

SceneCharacterEntries ==
    [character_id : CharacterRefIds, detailed_outfit : DetailedOutfits]

ShotCharacterEntries ==
    [character_id : CharacterRefIds, character_name : { <<"a">> },
     outfit_description : OutfitTexts \cup { "" },
     outfit_continuity : { "as written" }]

\* the lists of at most one entry, and those of two entries of one character
ShortLists(S) == { <<>> } \cup { <<e>> : e \in S }

PairsOfOne(S) == { <<e, f>> : e, f \in { x \in S : x.character_id = "char_01" } }

TrackerShots ==
    [shot_id : ShotIds, shot_characters : ShortLists(ShotCharacterEntries),
     focus_characters : { <<>> }]
    \cup
    [shot_id : ShotIds, shot_characters : { <<>> },
     focus_characters : ShortLists(FocusNames)]

TrackerScenes ==
    [scene_id : SceneIds,
     scene_characters : ShortLists(SceneCharacterEntries)
                            \cup PairsOfOne(SceneCharacterEntries),
     shots : { <<>> }]

\* whole scripts for process_formatted_script: one character, one scene with
\* one entry and one shot
TrackerScripts ==
    { [characters |-> cs,
       scenes |-> << [scene_id |-> "SC_01", scene_characters |-> <<e>>,
                      shots |-> <<sh>>] >>] :
        cs \in { <<c>> : c \in { d \in TrackerCharacters : d.id = "char_01" } },
        e \in { x \in SceneCharacterEntries : x.character_id = "char_01" },
        sh \in { t \in TrackerShots :
                    \/ /\ Len(t.shot_characters) = 1
                       /\ t.shot_characters[1].character_id = "char_01"
                       /\ t.shot_characters[1].outfit_description # "red kurta"
                    \/ t.focus_characters = << <<"a">> >> } }

Tracker == [co |-> character_outfits, order |-> outfit_order,
            changes |-> scene_outfit_changes]

HistoryWithin(tr) ==
    \A c \in DOMAIN tr.co : Len(tr.co[c].outfit_history) <= MaxHistory

SetTracker(tr) ==
    /\ HistoryWithin(tr)
    /\ character_outfits' = tr.co
    /\ outfit_order' = tr.order
    /\ scene_outfit_changes' = tr.changes

\* OutfitConsistencyTracker()
IdleOutfit ==
    /\ character_outfits = <<>>
    /\ outfit_order = <<>>
    /\ scene_outfit_changes = <<>>
    /\ supplied = <<>>
    /\ shot_call = <<>>

InitializeCharacterOutfits ==
    \E chars \in TrackerCharacterLists :
        /\ SetTracker(initialize_character_outfits(Tracker, chars))
        /\ supplied' = SuppliedByInit(supplied, chars, 1)
        /\ shot_call' = <<>>
        /\ UNCHANGED <<viewVars, audioVars, extractVars, sessionVars, regenVars, fixVars, attachVars>>

TrackSceneOutfits ==
    \E scene \in TrackerScenes :
        LET r == track_scene_outfits(Tracker, scene)
        IN  /\ SetTracker(r.tr)
            /\ supplied' = SuppliedByEntries(supplied, SceneEntries(scene), 1)
            /\ shot_call' = <<>>
            /\ UNCHANGED <<viewVars, audioVars, extractVars, sessionVars, regenVars, fixVars, attachVars>>

\* track_shot_outfits(shot, scene_id); returned says whether the shot returned
\* is kept in shot_call or left out of the state
TrackShotOutfitsCall(returned) ==
    \E shot \in TrackerShots :
        LET r == track_shot_outfits(Tracker, shot)
        IN  /\ SetTracker(r.tr)
            /\ supplied' = SuppliedByEntries(supplied, ShotEntries(shot), 1)
            /\ shot_call' = IF returned THEN <<shot, r.out>> ELSE <<>>
            /\ UNCHANGED <<viewVars, audioVars, extractVars, sessionVars, regenVars, fixVars, attachVars>>

\* the tracker's own state under track_shot_outfits
TrackShotOutfits == TrackShotOutfitsCall(FALSE)

\* track_shot_outfits with the shot it returns
TrackShotOutfitsReturned == TrackShotOutfitsCall(TRUE)

\* the trackers after initialize_character_outfits and at most one
\* track_scene_outfits, each with the outfits supplied so far
EmptyTracker == [co |-> <<>>, order |-> <<>>, changes |-> <<>>]

InitializedTrackers ==
    { [tr |-> initialize_character_outfits(EmptyTracker, chars),
       sup |-> SuppliedByInit(<<>>, chars, 1)] : chars \in TrackerCharacterLists }

TrackersAfterScene ==
    { [tr |-> track_scene_outfits(w.tr, scene).tr,
       sup |-> SuppliedByEntries(w.sup, SceneEntries(scene), 1)] :
        w \in InitializedTrackers, scene \in TrackerScenes }

ProcessFormattedScript ==
    \E formatted_script \in TrackerScripts :
        LET w == process_formatted_script([tr |-> Tracker, sup |-> supplied],
                                          formatted_script)
        IN  /\ SetTracker(w.tr)
            /\ supplied' = w.sup
            /\ shot_call' = <<>>
            /\ UNCHANGED <<viewVars, audioVars, extractVars, sessionVars, regenVars, fixVars, attachVars>>

----------------------------------------------------------------------------
(* Reference attachment                                                    *)

\* Largest character or location registry the model draws
MaxRegistry == 2

\* char_img_by_id[char_ref]: a dict keeps the last entry stored under a key
RECURSIVE LastWithId(_, _, _)
LastWithId(chars, char_ref, i) ==
    IF i = 0 THEN <<>>
    ELSE IF chars[i].id # <<>> /\ chars[i].id = char_ref THEN <<chars[i]>>
    ELSE LastWithId(chars, char_ref, i - 1)

\* the name test of one registry entry: exact match, else partial match
NameMatches(char, char_ref) ==
    LET char_name == Lower(char.name)
        char_ref_lower == Lower(char_ref)
    IN  \/ char_name = char_ref_lower
        \/ Contains(char_name, char_ref_lower)
        \/ StartsWith(char_name, char_ref_lower)

\* for char in characters: ... break at the first entry whose name matches
RECURSIVE FirstByName(_, _, _)
FirstByName(chars, char_ref, i) ==
    IF i > Len(chars) THEN <<>>
    ELSE IF NameMatches(chars[i], char_ref) THEN <<chars[i]>>
    ELSE FirstByName(chars, char_ref, i + 1)

\* the resolver inlined in attach_reference_images_to_shots: <<>> is "not
\* found", <<char>> the character found
ResolveCharacter(chars, char_ref) ==
    IF LastWithId(chars, char_ref, Len(chars)) # <<>>
    THEN LastWithId(chars, char_ref, Len(chars))
    ELSE FirstByName(chars, char_ref, 1)

\* the strong reference appended for a character found
CharacterImage(char_found) ==
    [character_id |-> char_found.id, character_name |-> char_found.name]

\* the loop over one shot's Focus_Characters, given up at the first miss
RECURSIVE MutantFocusImages(_, _, _)
MutantFocusImages(chars, focus_characters, i) ==
    IF i > Len(focus_characters) THEN <<>>
    ELSE LET char_found == ResolveCharacter(chars, focus_characters[i])
         IN  IF char_found # <<>>
             THEN <<CharacterImage(char_found[1])>>
                    \o MutantFocusImages(chars, focus_characters, i + 1)
             ELSE <<>>

\* the loop over one shot's Focus_Characters: misses are skipped
RECURSIVE FocusImages(_, _, _)
FocusImages(chars, focus_characters, i) ==
    IF i > Len(focus_characters) THEN <<>>
    ELSE LET char_found == ResolveCharacter(chars, focus_characters[i])
         IN  (IF char_found # <<>> THEN <<CharacterImage(char_found[1])>> ELSE <<>>)
                \o FocusImages(chars, focus_characters, i + 1)

\* one shot of attach_reference_images_to_shots; focus_character_images is
\* <<>> while the key is absent and <<list>> once it is set
AttachShotCharacters(chars, shot) ==
    [shot EXCEPT !.focus_character_images =
        <<FocusImages(chars, shot.Focus_Characters, 1)>>]

attach_reference_images_to_shots(tree, chars) ==
    [s \in 1..Len(tree) |->
        [tree[s] EXCEPT !.shots =
            [k \in 1..Len(tree[s].shots) |->
                AttachShotCharacters(chars, tree[s].shots[k])]]]

\* str.replace(pat, ''), pat not empty
RECURSIVE RemoveAll(_, _)
RemoveAll(s, pat) ==
    IF Len(s) < Len(pat) THEN s
    ELSE IF SubSeq(s, 1, Len(pat)) = pat
         THEN RemoveAll(SubSeq(s, Len(pat) + 1, Len(s)), pat)
         ELSE <<s[1]>> \o RemoveAll(Tail(s), pat)

\* str.split(ch)[0]
RECURSIVE BeforeFirst(_, _)
BeforeFirst(s, ch) ==
    IF s = <<>> \/ s[1] = ch THEN <<>>
    ELSE <<s[1]>> \o BeforeFirst(Tail(s), ch)

\* str.split(): the maximal runs of non-blank characters
RECURSIVE WordsFrom(_, _)
WordsFrom(s, word) ==
    IF s = <<>> THEN (IF word = <<>> THEN <<>> ELSE <<word>>)
    ELSE IF s[1] = " "
         THEN (IF word = <<>> THEN <<>> ELSE <<word>>) \o WordsFrom(Tail(s), <<>>)
         ELSE WordsFrom(Tail(s), Append(word, s[1]))

Words(s) == WordsFrom(s, <<>>)

Str_EXT == <<"E", "X", "T", ".">>
Str_INT == <<"I", "N", "T", ".">>

\* scene_location.replace('EXT.', '').replace('INT.', '').split('-')[0].strip()
\* followed by .split(): strip() only drops blanks that split() drops as well
LocationNameParts(scene_location) ==
    Words(BeforeFirst(RemoveAll(RemoveAll(scene_location, Str_EXT), Str_INT), "-"))

\* location_lookup: keyed by location_id, in first-insertion order, holding
\* the last entry stored under each id; entries without an id are left out
RECURSIVE LocationLookupFrom(_, _, _)
LocationLookupFrom(locs, i, lookup) ==
    IF i > Len(locs) THEN lookup
    ELSE LET loc == locs[i]
             next ==
                IF loc.location_id = <<>> THEN lookup
                ELSE IF \E k \in 1..Len(lookup) : lookup[k].location_id = loc.location_id
                THEN [k \in 1..Len(lookup) |->
                        IF lookup[k].location_id = loc.location_id THEN loc
                        ELSE lookup[k]]
                ELSE Append(lookup, loc)
         IN  LocationLookupFrom(locs, i + 1, next)

LocationLookup(locs) == LocationLookupFrom(locs, 1, <<>>)

\* first pass: the location's name occurs in the scene's location string
RECURSIVE MatchByName(_, _, _)
MatchByName(lookup, scene_location, i) ==
    IF i > Len(lookup) THEN <<>>
    ELSE IF Contains(Lower(scene_location), Lower(lookup[i].name)) THEN <<lookup[i]>>
    ELSE MatchByName(lookup, scene_location, i + 1)

\* second pass: some word of the cleaned location string occurs in the name
RECURSIVE MatchByParts(_, _, _)
MatchByParts(lookup, parts, i) ==
    IF i > Len(lookup) THEN <<>>
    ELSE IF \E p \in 1..Len(parts) : Contains(Lower(lookup[i].name), Lower(parts[p]))
         THEN <<lookup[i]>>
    ELSE MatchByParts(lookup, parts, i + 1)

\* the resolver inlined in attach_location_reference_images_to_scenes
ResolveLocation(locs, scene_location) ==
    LET lookup == LocationLookup(locs)
    IN  IF MatchByName(lookup, scene_location, 1) # <<>>
        THEN MatchByName(lookup, scene_location, 1)
        ELSE MatchByParts(lookup, LocationNameParts(scene_location), 1)

\* location_ref_data
LocationRef(matched_location) ==
    [location_id |-> matched_location.location_id,
     location_name |-> matched_location.name,
     location_image_path |-> matched_location.image_path]

\* location_ref_data.copy(), written onto one shot
ShotWithLocation(shot, location_ref_data) ==
    [shot EXCEPT !.location_reference = <<location_ref_data>>]

\* the scene's reference written onto the scene and its first shot only
MutantAttachSceneLocation(locs, scene) ==
    LET matched_location == ResolveLocation(locs, scene.Location)
    IN  IF matched_location # <<>>
        THEN [scene EXCEPT
                !.location_reference = <<LocationRef(matched_location[1])>>,
                !.shots = [k \in 1..Len(scene.shots) |->
                             IF k = 1
                             THEN ShotWithLocation(scene.shots[k],
                                                   LocationRef(matched_location[1]))
                             ELSE scene.shots[k]]]
        ELSE scene

\* one scene of attach_location_reference_images_to_scenes: a scene that is
\* not matched is left as it was
AttachSceneLocation(locs, scene) ==
    LET matched_location == ResolveLocation(locs, scene.Location)
    IN  IF matched_location # <<>>
        THEN [scene EXCEPT
                !.location_reference = <<LocationRef(matched_location[1])>>,
                !.shots = [k \in 1..Len(scene.shots) |->
                             ShotWithLocation(scene.shots[k],
                                              LocationRef(matched_location[1]))]]
        ELSE scene

attach_location_reference_images_to_scenes(tree, locs) ==
    [s \in 1..Len(tree) |-> AttachSceneLocation(locs, tree[s])]

attach_all_reference_images(tree, chars, locs) ==
    attach_location_reference_images_to_scenes(
        attach_reference_images_to_shots(tree, chars), locs)

\* The inputs the model draws ------------------------------------------------

RegistryCharacters ==
    { [id |-> <<"1">>, name |-> <<"A">>],
      [id |-> <<"2">>, name |-> <<"A", "b">>],
      [id |-> <<"1">>, name |-> <<"b">>],
      [id |-> <<>>,    name |-> <<"A", "b">>],
      [id |-> <<"2">>, name |-> <<>>],
      [id |-> <<"3">>, name |-> <<"a">>] }

CharacterRefs ==
    { <<>>, <<"a">>, <<"A">>, <<"b">>, <<"a", "b">>, <<"1">>, <<"z">> }

RegistriesOf(S) == UNION { [1..n -> S] : n \in 0..MaxRegistry }

NewShot(focus) ==
    [Focus_Characters |-> focus, focus_character_images |-> <<>>,
     location_reference |-> <<>>]

NewScene(location, shots) ==
    [Location |-> location, location_reference |-> <<>>, shots |-> shots]

Loc_ext_ab_n == Str_EXT \o <<" ", "a", "b", " ", "-", " ", "n">>
Loc_int_B_c  == Str_INT \o <<" ", "B", " ", "c">>

SceneLocations == { Loc_ext_ab_n, Loc_int_B_c, <<"z">>, <<>> }

RegistryLocations ==
    { [location_id |-> <<"L", "1">>, name |-> <<"A", "b">>, image_path |-> "ab_v1.png"],
      [location_id |-> <<"L", "1">>, name |-> <<"A", "b">>, image_path |-> "ab_v2.png"],
      [location_id |-> <<"L", "2">>, name |-> <<"c", " ", "d">>, image_path |-> "cd.png"],
      [location_id |-> <<"L", "3">>, name |-> <<"B", " ", "q">>, image_path |-> "bq.png"],
      [location_id |-> <<>>, name |-> <<"A", "b">>, image_path |-> "noid.png"] }

\* scripts for character attachment: a scene of two shots at a location that
\* no registry knows, then a scene of one shot
CharacterScripts ==
    { << NewScene(<<"z">>, <<NewShot(f1), NewShot(f2)>>),
         NewScene(Loc_int_B_c, <<NewShot(<<>>)>>) >> :
        f1 \in ShortLists(CharacterRefs),
        f2 \in { <<>>, << <<"A">> >>, << <<"z">>, <<"b">> >> } }

\* the location registries character attachment is run with
FewLocationRegistries ==
    { <<>> } \cup { <<l>> : l \in { x \in RegistryLocations : x.image_path = "bq.png" } }

\* scripts for location attachment: a scene of two shots, then a scene of one
LocationScripts ==
    { << NewScene(l1, <<NewShot(<<>>), NewShot(<<>>)>>),
         NewScene(l2, <<NewShot(<<>>)>>) >> :
        l1 \in SceneLocations, l2 \in { Loc_int_B_c, <<"z">> } }

\* the character list as attach_reference_images_to_shots leaves it, with the
\* lower-cased name of the comparison stored back into each entry
MutantCharactersAfterAttach(chars) ==
    [i \in 1..Len(chars) |-> [chars[i] EXCEPT !.name = Lower(@)]]

\* the character list as attach_reference_images_to_shots leaves it: the
\* entries are only read (char.get), what a shot receives is a new dict
CharactersAfterAttach(chars) == chars

\* the location list as attach_location_reference_images_to_scenes leaves it:
\* the entries are only read, the lookup and the reference are new dicts
LocationsAfterAttach(locs) == locs

\* scripts whose shots refer to the characters by id
IdScripts ==
    { << NewScene(<<"z">>, <<NewShot(<<char_ref>>)>>) >> : char_ref \in FixIds }

IdleAttach ==
    /\ locations = <<>>
    /\ script = <<>>
    /\ attach_state = "none"

\* attach_reference_images_to_shots(formatted_script_data, characters_data)
AttachCharacters ==
    /\ script' = attach_reference_images_to_shots(script, characters)
    /\ characters' = CharactersAfterAttach(characters)
    /\ attach_state' = "characters"
    /\ UNCHANGED <<viewVars, audioVars, extractVars, sessionVars, regenVars, locations, fix_input, fix_done, outfitVars>>

\* attach_location_reference_images_to_scenes(formatted_script_data, locations_data)
AttachLocations ==
    /\ script' = attach_location_reference_images_to_scenes(script, locations)
    /\ locations' = LocationsAfterAttach(locations)
    /\ attach_state' = "locations"
    /\ UNCHANGED <<viewVars, audioVars, extractVars, sessionVars, regenVars, fixVars, outfitVars>>

\* SceneCreator._attach_all_reference_images
AttachAll ==
    /\ script' = attach_all_reference_images(script, characters, locations)
    /\ characters' = CharactersAfterAttach(characters)
    /\ locations' = LocationsAfterAttach(locations)
    /\ attach_state' = "all"
    /\ UNCHANGED <<viewVars, audioVars, extractVars, sessionVars, regenVars, fix_input, fix_done, outfitVars>>

\* location_generation_step: the locations are generated again and saved
SaveLocations ==
    /\ \E locs \in RegistriesOf(RegistryLocations) :
          /\ locs # locations
          /\ locations' = locs
    /\ attach_state' = IF attach_state = "none" THEN "none" ELSE "stale"
    /\ UNCHANGED <<viewVars, audioVars, extractVars, sessionVars, regenVars, script, fixVars, outfitVars>>

----------------------------------------------------------------------------
(* Scene image and video generation: files, progress ledger                *)
(* (scene_creation/scene_image_generator.py, scene_video_generator.py,     *)
(*  scene_creation/scene_creator.py, app.py scene_creation_step)           *)

\* generation calls (scene-level, script-level or single-shot) per behaviour
MaxRuns == 2

Str_SC_01 == <<"S", "C", "_", "0", "1">>
Str_SC_02 == <<"S", "C", "_", "0", "2">>
Str_SC1_SH1 == <<"S", "C", "1", "_", "S", "H", "1">>
Str_SC1_SH2 == <<"S", "C", "1", "_", "S", "H", "2">>
Str_SC2_SH1 == <<"S", "C", "2", "_", "S", "H", "1">>
Str_scene_png == <<"_", "s", "c", "e", "n", "e", ".", "p", "n", "g">>
Str_video_mp4 == <<"_", "v", "i", "d", "e", "o", ".", "m", "p", "4">>

\* f"{scene_id}_{shot_id}_scene.png"
ImageFilename(scene_id, shot_id) == scene_id \o <<"_">> \o shot_id \o Str_scene_png

\* f"{scene_id}_{shot_id}_video.mp4"
VideoFilename(scene_id, shot_id) == scene_id \o <<"_">> \o shot_id \o Str_video_mp4

\* script_with_descriptions.json: two scenes, three shots
Storyboard ==
    << [Scene_ID |-> Str_SC_01,
        shots |-> << [Shot_ID |-> Str_SC1_SH1], [Shot_ID |-> Str_SC1_SH2] >>],
       [Scene_ID |-> Str_SC_02,
        shots |-> << [Shot_ID |-> Str_SC2_SH1] >>] >>

ShotKeys ==
    UNION { { <<Storyboard[s].Scene_ID, Storyboard[s].shots[k].Shot_ID>> :
                k \in 1..Len(Storyboard[s].shots) } : s \in 1..Len(Storyboard) }

StoryboardShotIds == { key[2] : key \in ShotKeys }

\* display_scene_images, the "Regenerate <shot_id>" button: the scene id it
\* derives from the shot id; <<>> when the shot id has no second part
\* (IndexError, caught by the handler)
ViewSceneId(shot_id) ==
    LET parts == Split(shot_id, <<"_">>)
    IN  IF Len(parts) < 2 THEN <<>>
        ELSE << parts[1] \o <<"_">>
                  \o SubSeq(parts[2], 1, IF Len(parts[2]) < 2 THEN Len(parts[2]) ELSE 2) >>

\* the files scene_creation/images can hold
ImagePaths ==
    { ImageFilename(key[1], key[2]) : key \in ShotKeys }
       \cup { ImageFilename(ViewSceneId(key[2])[1], key[2]) :
                 key \in { k \in ShotKeys : ViewSceneId(k[2]) # <<>> } }

VideoPaths == { VideoFilename(key[1], key[2]) : key \in ShotKeys }

\* what one generator call comes back with: an image that is saved, a response
\* without image data, or an exception
Outcomes == { "saved", "no_image", "error" }

\* SceneImageGenerator.__init__: self.generation_progress
NewGenerationProgress ==
    [ current_scene |-> <<>>,
      completed_scenes |-> <<>>,
      current_shot |-> <<>>,
      generated_images |-> [shot_id \in StoryboardShotIds |-> <<>>],
      failed_generations |-> <<>> ]

\* SceneImageGenerator.generate_scene_image on w = [files, progress, ret,
\* calls]; a file's value is the number of times it has been written, 0 when
\* absent; calls collects the shots the generator was called for
generate_scene_image(w, shot_id, scene_id, outcome) ==
    LET filepath == ImageFilename(scene_id, shot_id)
        w0 == [w EXCEPT !.calls = @ \cup { <<scene_id, shot_id>> }]
    IN  CASE outcome = "saved" ->
               [w0 EXCEPT !.files[filepath] = @ + 1,
                          !.progress.generated_images[shot_id] =
                                 << [ filepath |-> filepath,
                                      scene_id |-> <<scene_id>>,
                                      shot_id |-> shot_id,
                                      status |-> "success" ] >>,
                          !.ret = <<filepath>>]
          [] outcome = "no_image" -> [w0 EXCEPT !.ret = <<>>]
          [] OTHER ->
               [w0 EXCEPT !.progress.failed_generations =
                              Append(@, [ shot_id |-> shot_id,
                                          scene_id |-> scene_id,
                                          error |-> "error" ]),
                          !.ret = <<>>]

\* the loop of generate_scene_images over the scene's shots, from shot i
RECURSIVE GenerateShotsLoop(_, _, _, _)
GenerateShotsLoop(w, scene, outcomes, i) ==
    IF i > Len(scene.shots) THEN w
    ELSE LET shot_id == scene.shots[i].Shot_ID
             w1 == [w EXCEPT !.progress.current_shot = <<shot_id>>]
         IN  GenerateShotsLoop(
                 generate_scene_image(w1, shot_id, scene.Scene_ID, outcomes[i]),
                 scene, outcomes, i + 1)

\* SceneImageGenerator.generate_scene_images
generate_scene_images(w, scene, outcomes) ==
    LET w1 == [w EXCEPT !.progress.current_scene = <<scene.Scene_ID>>]
        w2 == GenerateShotsLoop(w1, scene, outcomes, 1)
    IN  [w2 EXCEPT !.progress.completed_scenes = Append(@, scene.Scene_ID)]

\* the loop of generate_all_scene_images over scenes i..last (the user quits
\* after scene `last`)
RECURSIVE GenerateScenesLoop(_, _, _, _)
GenerateScenesLoop(w, outcomes, i, last) ==
    IF i > last THEN w
    ELSE GenerateScenesLoop(generate_scene_images(w, Storyboard[i], outcomes[i]),
                            outcomes, i + 1, last)

\* SceneImageGenerator.save_generation_results: the progress goes into
\* scene_generation_results.json
save_generation_results(progress) == <<progress>>

\* SceneImageGenerator.generate_all_scene_images: the result carries the
\* saved results file as well; start_from_scene counts from 0
generate_all_scene_images(w, outcomes, start_from_scene, last) ==
    LET w1 == GenerateScenesLoop(w, outcomes, start_from_scene + 1, last)
    IN  [ files |-> w1.files, progress |-> w1.progress, ret |-> w1.ret,
          calls |-> w1.calls,
          results |-> save_generation_results(w1.progress) ]

\* regenerate_single_shot with every other ledger entry dropped on success
Mutant_regenerate_single_shot(w, shot_id, scene_id, outcome) ==
    LET w1 == generate_scene_image(w, shot_id, scene_id, outcome)
    IN  IF w1.ret # <<>>
        THEN [w1 EXCEPT !.progress.generated_images =
                 [s \in StoryboardShotIds |->
                    IF s = shot_id
                    THEN << [ filepath |-> w1.ret[1],
                              scene_id |-> <<>>,
                              shot_id |-> shot_id,
                              status |-> "regenerated" ] >>
                    ELSE <<>>]]
        ELSE w1

\* SceneImageGenerator.regenerate_single_shot: the entry written on success
\* has no scene_id
regenerate_single_shot(w, shot_id, scene_id, outcome) ==
    LET w1 == generate_scene_image(w, shot_id, scene_id, outcome)
    IN  IF w1.ret # <<>>
        THEN [w1 EXCEPT !.progress.generated_images[shot_id] =
                 << [ filepath |-> w1.ret[1],
                      scene_id |-> <<>>,
                      shot_id |-> shot_id,
                      status |-> "regenerated" ] >>]
        ELSE w1

\* SceneImageGenerator.load_existing_generation_results: the progress comes
\* from scene_generation_results.json when that file exists
load_existing_generation_results(results, progress) ==
    IF results # <<>> THEN results[1] ELSE progress

\* SceneVideoGenerator.generate_video: nothing without the scene image
generate_video(videos, files, shot_id, scene_image_path, scene_id, outcome) ==
    IF files[scene_image_path] = 0 THEN videos
    ELSE IF outcome = "saved"
         THEN [videos EXCEPT ![VideoFilename(scene_id, shot_id)] = @ + 1]
         ELSE videos

\* the loop of generate_scene_videos over the scene's shots
RECURSIVE GenerateVideosLoop(_, _, _, _, _)
GenerateVideosLoop(videos, files, scene, outcomes, i) ==
    IF i > Len(scene.shots) THEN videos
    ELSE LET shot_id == scene.shots[i].Shot_ID
         IN  GenerateVideosLoop(
                 generate_video(videos, files, shot_id,
                                ImageFilename(scene.Scene_ID, shot_id),
                                scene.Scene_ID, outcomes[i]),
                 files, scene, outcomes, i + 1)

\* SceneVideoGenerator.generate_scene_videos
generate_scene_videos(videos, files, scene, outcomes) ==
    GenerateVideosLoop(videos, files, scene, outcomes, 1)

\* SceneVideoGenerator.regenerate_single_shot_video
regenerate_single_shot_video(videos, files, shot_id, scene_image_path, scene_id, outcome) ==
    generate_video(videos, files, shot_id, scene_image_path, scene_id, outcome)

\* scene_creation_step: a scene is complete when every shot has its image file
IsComplete(files, scene) ==
    Cardinality({ k \in 1..Len(scene.shots) :
                    files[ImageFilename(scene.Scene_ID, scene.shots[k].Shot_ID)] > 0 })
        >= Len(scene.shots)

SceneKeys(scene) ==
    { <<scene.Scene_ID, scene.shots[k].Shot_ID>> : k \in 1..Len(scene.shots) }

\* the session directories a SceneCreator is constructed over, per shot no
\* artifact, the image, or the image and its video: an empty one, one with
\* the first shot's image only, one with every image, one with every video
SessionDirectories ==
    { [key \in ShotKeys |-> "none"],
      [key \in ShotKeys |-> IF key = <<Str_SC_01, Str_SC1_SH1>> THEN "image" ELSE "none"],
      [key \in ShotKeys |-> "image"],
      [key \in ShotKeys |-> "video"] }

IdleRegen ==
    /\ image_files = <<>>
    /\ video_files = <<>>
    /\ generation_progress = <<>>
    /\ results_json = <<>>
    /\ regen_op = <<>>

Op(name, scene_id, shot_id, force, calls) ==
    [ op |-> name, scene_id |-> scene_id, shot_id |-> shot_id,
      force |-> force, calls |-> calls, images |-> {},
      runs |-> IF name = "init" THEN regen_op.runs ELSE regen_op.runs + 1 ]

\* scene_results["images"] of generate_scene_images: the shots whose image was
\* saved by this call, which display_scene_images shows
scene_results_images(scene, outcomes) ==
    { scene.shots[k].Shot_ID :
        k \in { j \in 1..Len(scene.shots) : outcomes[j] = "saved" } }

\* SceneCreator.__init__ (every rerun of the page constructs one)
SceneCreatorInit ==
    /\ generation_progress' =
          load_existing_generation_results(results_json, NewGenerationProgress)
    /\ regen_op' = Op("init", <<>>, <<>>, FALSE, {})
    /\ UNCHANGED <<viewVars, audioVars, extractVars, sessionVars, image_files, video_files, results_json,
                   fixVars, outfitVars, attachVars>>

\* scene_creation_step, the "Generate Images" / "Regenerate All Images" button:
\* image_generator.generate_scene_images(scene)
GenerateSceneImages ==
    /\ regen_op.runs < MaxRuns
    /\ \E s \in 1..Len(Storyboard) :
       \E outcomes \in [1..Len(Storyboard[s].shots) -> Outcomes] :
          LET scene == Storyboard[s]
              w == generate_scene_images(
                       [ files |-> image_files, progress |-> generation_progress,
                         ret |-> <<>>, calls |-> {} ], scene, outcomes)
          IN  /\ image_files' = w.files
              /\ generation_progress' = w.progress
              /\ regen_op' =
                    [Op("generate_scene_images", <<scene.Scene_ID>>, <<>>,
                        IsComplete(image_files, scene), w.calls)
                       EXCEPT !.images = scene_results_images(scene, outcomes)]
    /\ UNCHANGED <<viewVars, audioVars, extractVars, sessionVars, video_files, results_json, fixVars, outfitVars, attachVars>>

\* SceneCreator.generate_scene_images: the whole script, saved at the end
GenerateAllSceneImages ==
    /\ regen_op.runs < MaxRuns
    /\ \E start_from_scene \in 0..(Len(Storyboard) - 1) :
       \E last \in (start_from_scene + 1)..Len(Storyboard) :
       \E outcomes \in { o \in [1..Len(Storyboard) -> UNION { [1..n -> Outcomes] : n \in 1..Cardinality(ShotKeys) }] :
                            \A s \in 1..Len(Storyboard) :
                                Len(o[s]) = Len(Storyboard[s].shots) } :
          LET w == generate_all_scene_images(
                       [ files |-> image_files, progress |-> generation_progress,
                         ret |-> <<>>, calls |-> {} ], outcomes, start_from_scene, last)
          IN  /\ image_files' = w.files
              /\ generation_progress' = w.progress
              /\ results_json' = w.results
              /\ regen_op' = Op("generate_all_scene_images", <<>>, <<>>, FALSE,
                                w.calls)
    /\ UNCHANGED <<viewVars, audioVars, extractVars, sessionVars, video_files, fixVars, outfitVars, attachVars>>

\* SceneCreator.regenerate_single_shot_image, the per-shot "Regenerate" button
RegenerateSingleShot ==
    /\ regen_op.runs < MaxRuns
    /\ \E key \in ShotKeys, outcome \in Outcomes :
          LET w == regenerate_single_shot(
                       [ files |-> image_files, progress |-> generation_progress,
                         ret |-> <<>>, calls |-> {} ], key[2], key[1], outcome)
          IN  /\ image_files' = w.files
              /\ generation_progress' = w.progress
              /\ regen_op' = Op("regenerate_single_shot", <<key[1]>>, <<key[2]>>,
                                TRUE, w.calls)
    /\ UNCHANGED <<viewVars, audioVars, extractVars, sessionVars, video_files, results_json, fixVars, outfitVars, attachVars>>

\* display_scene_images, the "Regenerate <shot_id>" button of a shot shown in
\* the images just generated
RegenerateFromView ==
    /\ regen_op.runs < MaxRuns
    /\ regen_op.op = "generate_scene_images"
    /\ \E shot_id \in regen_op.images, outcome \in Outcomes :
          LET scene_id == ViewSceneId(shot_id)
              w0 == [ files |-> image_files, progress |-> generation_progress,
                      ret |-> <<>>, calls |-> {} ]
              w == IF scene_id = <<>> THEN w0
                   ELSE regenerate_single_shot(w0, shot_id, scene_id[1], outcome)
          IN  /\ image_files' = w.files
              /\ generation_progress' = w.progress
              /\ regen_op' = Op("regenerate_from_view", scene_id, <<shot_id>>,
                                TRUE, w.calls)
    /\ UNCHANGED <<viewVars, audioVars, extractVars, sessionVars, video_files, results_json, fixVars, outfitVars, attachVars>>

\* SceneCreator.generate_scene_videos
GenerateSceneVideos ==
    /\ regen_op.runs < MaxRuns
    /\ \E s \in 1..Len(Storyboard) :
       \E outcomes \in [1..Len(Storyboard[s].shots) -> { "saved", "error" }] :
          /\ video_files' = generate_scene_videos(video_files, image_files,
                                                  Storyboard[s], outcomes)
          /\ regen_op' = Op("generate_scene_videos", <<Storyboard[s].Scene_ID>>,
                            <<>>, FALSE, {})
    /\ UNCHANGED <<viewVars, audioVars, extractVars, sessionVars, image_files, generation_progress, results_json,
                   fixVars, outfitVars, attachVars>>

\* SceneCreator.regenerate_single_shot_video, with the shot's own scene image
RegenerateSingleShotVideo ==
    /\ regen_op.runs < MaxRuns
    /\ \E key \in ShotKeys, outcome \in { "saved", "error" } :
          /\ video_files' = regenerate_single_shot_video(
                                video_files, image_files, key[2],
                                ImageFilename(key[1], key[2]), key[1], outcome)
          /\ regen_op' = Op("regenerate_single_shot_video", <<key[1]>>, <<key[2]>>,
                            TRUE, {})
    /\ UNCHANGED <<viewVars, audioVars, extractVars, sessionVars, image_files, generation_progress, results_json,
                   fixVars, outfitVars, attachVars>>

----------------------------------------------------------------------------
(* Session lifecycle: ProjectManager, the sidebar navigation of main() and  *)
(* the prerequisite check of scene_creation_step                            *)
(* (project_manager.py, app.py)                                             *)

\* datetime.now() readings per behaviour
MaxClock == 3

\* len(steps) in main(): the five pipeline stages
NumSteps == 5

\* the directories create_session makes
SessionDirs ==
    { "script_planning", "character_generation", "location_generation",
      "scene_creation", "video_editing", "metadata" }

\* the completion flags the save_* calls set
CompletionFlags ==
    { "script_planning_completed", "shot_planning_completed",
      "character_generation_completed" }

\* json documents: a key that is absent reads <<>>, a key with value v reads <<v>>
EmptyDoc ==
    [ project_name |-> <<>>, current_step |-> <<>>, last_updated |-> <<>>,
      script_planning_completed |-> <<>>, shot_planning_completed |-> <<>>,
      character_generation_completed |-> <<>> ]

\* metadata/project_info.json: absent, unreadable as JSON, or a document
MissingInfo == [ state |-> "missing", doc |-> EmptyDoc ]
CorruptInfo == [ state |-> "corrupt", doc |-> EmptyDoc ]
ValidInfo(doc) == [ state |-> "valid", doc |-> doc ]

\* metadata.get(key, default)
DocGet(doc, key, default) == IF doc[key] = <<>> THEN default ELSE doc[key][1]

\* the document create_session writes
NewProjectDoc == [EmptyDoc EXCEPT !.project_name = <<"p">>, !.current_step = <<0>>]

\* ProjectManager._update_metadata on a session directory: w = [info, raised].
\* json.load of an unreadable file raises before anything is written.
\* The document is written anew with only the key and last_updated.
Mutant_update_metadata(info, key, value, t) ==
    IF info.state = "corrupt" THEN [ info |-> info, raised |-> TRUE ]
    ELSE [ info |-> ValidInfo([EmptyDoc EXCEPT ![key] = <<value>>,
                                               !.last_updated = <<t>>]),
           raised |-> FALSE ]

\* ProjectManager._update_metadata on a session directory: w = [info, raised].
\* json.load of an unreadable file raises before anything is written.
_update_metadata(info, key, value, t) ==
    IF info.state = "corrupt" THEN [ info |-> info, raised |-> TRUE ]
    ELSE LET metadata == IF info.state = "valid" THEN info.doc ELSE EmptyDoc
         IN  [ info |-> ValidInfo([metadata EXCEPT ![key] = <<value>>,
                                                   !.last_updated = <<t>>]),
               raised |-> FALSE ]

\* ProjectManager.get_current_step
get_current_step(dir, info) ==
    IF dir = <<>> THEN 0
    ELSE IF info.state = "valid" THEN DocGet(info.doc, "current_step", 0)
    ELSE 0

\* ProjectManager.get_available_sessions: sessions without a readable
\* project_info.json are skipped
get_available_sessions(dirs, info) ==
    IF dirs = {} \/ info.state # "valid" THEN <<>>
    ELSE << [ project_name |-> DocGet(info.doc, "project_name", "session"),
              current_step |-> DocGet(info.doc, "current_step", 0) ] >>

\* main(): the "Next Step" button is shown
MutantCanGoNext(step) == TRUE

\* main(): the "Next Step" button is shown
CanGoNext(step) == step < NumSteps - 1

\* main(): the "Previous Step" button is shown
CanGoPrevious(step) == step > 0

\* the artifact files of get_session_data / the save_* calls
ScriptFile == "script_planning/scenes_info.json"
FormattedScriptFile == "script_planning/formatted_script.json"
CharactersFile == "character_generation/characters.json"
LocationsFile == "location_generation/locations.json"

\* scene_creation_step: formatted script, characters and locations are there
PrerequisitesMet(files) ==
    { FormattedScriptFile, CharactersFile, LocationsFile } \subseteq files

\* SceneCreator.__init__: SceneImageGenerator.__init__ raises without
\* GEMINI_API_KEY before it makes its directory, SceneVideoGenerator.__init__
\* makes its directory and then raises without FAL_KEY
SceneCreatorConstruct(dirs, gemini_key, fal_key) ==
    IF ~gemini_key THEN [ dirs |-> dirs, raised |-> TRUE ]
    ELSE [ dirs |-> dirs \cup { "scene_creation/images", "scene_creation/videos" },
           raised |-> ~fal_key ]

\* the session directories found on disk when the app starts: none, or one
\* that the program left behind, whose project_info.json may since have been
\* lost or damaged
StoredDocs ==
    { [NewProjectDoc EXCEPT !.current_step = <<step>>,
                            !.script_planning_completed = flag,
                            !.last_updated = IF flag = <<>> THEN <<>> ELSE <<0>>] :
        step \in { 0, NumSteps - 1 }, flag \in { <<>>, <<TRUE>> } }

StoredInfos == { MissingInfo, CorruptInfo } \cup { ValidInfo(doc) : doc \in StoredDocs }

IdleSession ==
    /\ session_dir = <<>>
    /\ ui_current_step = 0
    /\ disk_dirs = {}
    /\ disk_files = {}
    /\ project_info = MissingInfo
    /\ now = 0
    /\ pm_call = <<>>

Call(op, raised) == [ op |-> op, raised |-> raised, listed |-> <<>> ]

\* main(): "Create Project" -> ProjectManager.create_session, a new directory
CreateSession ==
    /\ now < MaxClock
    /\ now' = now + 1
    /\ session_dir' = <<"session">>
    /\ disk_dirs' = SessionDirs
    /\ disk_files' = {}
    /\ project_info' = ValidInfo(NewProjectDoc)
    /\ ui_current_step' = 0
    /\ pm_call' = Call("create_session", FALSE)
    /\ UNCHANGED <<viewVars, audioVars, extractVars, regenVars, fixVars, outfitVars, attachVars>>

\* main(): a stored session is picked -> load_session, get_current_step
LoadSession ==
    /\ disk_dirs # {}
    /\ session_dir' = <<"session">>
    /\ ui_current_step' = get_current_step(session_dir', project_info)
    /\ pm_call' = Call("load_session", FALSE)
    /\ UNCHANGED <<viewVars, audioVars, extractVars, disk_dirs, disk_files, project_info, now,
                   regenVars, fixVars, outfitVars, attachVars>>

\* ProjectManager.set_current_step as the buttons call it: without a session
\* os.path.join(None, ...) raises
SetCurrentStep(op, step) ==
    /\ now < MaxClock
    /\ now' = now + 1
    /\ ui_current_step' = step
    /\ IF session_dir = <<>>
       THEN /\ project_info' = project_info
            /\ pm_call' = Call(op, TRUE)
       ELSE LET w == _update_metadata(project_info, "current_step", step, now')
            IN  /\ project_info' = w.info
                /\ pm_call' = Call(op, w.raised)
    /\ UNCHANGED <<viewVars, audioVars, extractVars, session_dir, disk_dirs, disk_files,
                   regenVars, fixVars, outfitVars, attachVars>>

\* main(): "Previous Step"
NavigatePrevious ==
    /\ CanGoPrevious(ui_current_step)
    /\ SetCurrentStep("previous", ui_current_step - 1)

\* main(): "Next Step"
NavigateNext ==
    /\ CanGoNext(ui_current_step)
    /\ SetCurrentStep("next", ui_current_step + 1)

\* scene_creation_step: "Proceed to Final Assembly"
ProceedToFinalAssembly ==
    /\ session_dir # <<>>
    /\ ui_current_step = NumSteps - 2
    /\ PrerequisitesMet(disk_files)
    /\ SetCurrentStep("proceed", NumSteps - 1)

\* save_script_data, save_formatted_script, save_characters: the file is
\* written, then the flag goes into the metadata
SaveArtifact(op, file, flag) ==
    /\ session_dir # <<>>
    /\ now < MaxClock
    /\ now' = now + 1
    /\ disk_files' = disk_files \cup { file }
    /\ LET w == _update_metadata(project_info, flag, TRUE, now')
       IN  /\ project_info' = w.info
           /\ pm_call' = Call(op, w.raised)
    /\ UNCHANGED <<viewVars, audioVars, extractVars, session_dir, ui_current_step, disk_dirs,
                   regenVars, fixVars, outfitVars, attachVars>>

\* ProjectManager.save_script_data
SaveScriptData ==
    /\ session_dir # <<>>
    /\ SaveArtifact("save_script_data", ScriptFile, "script_planning_completed")

\* ProjectManager.save_formatted_script
SaveFormattedScript ==
    /\ session_dir # <<>>
    /\ SaveArtifact("save_formatted_script", FormattedScriptFile, "shot_planning_completed")

\* ProjectManager.save_characters
SaveCharacters ==
    /\ session_dir # <<>>
    /\ SaveArtifact("save_characters", CharactersFile, "character_generation_completed")

\* ProjectManager.save_data("locations", ...)
SaveData ==
    /\ session_dir # <<>>
    /\ disk_files' = disk_files \cup { LocationsFile }
    /\ disk_dirs' = disk_dirs \cup { "location_generation" }
    /\ pm_call' = Call("save_data", FALSE)
    /\ UNCHANGED <<viewVars, audioVars, extractVars, session_dir, ui_current_step, project_info, now,
                   regenVars, fixVars, outfitVars, attachVars>>

\* main(): the sidebar lists the stored sessions
GetAvailableSessions ==
    /\ pm_call' = [ op |-> "get_available_sessions", raised |-> FALSE,
                    listed |-> get_available_sessions(disk_dirs, project_info) ]
    /\ UNCHANGED <<viewVars, audioVars, extractVars, session_dir, ui_current_step, disk_dirs, disk_files,
                   project_info, now, regenVars, fixVars, outfitVars, attachVars>>

\* scene_creation_step up to the prerequisite check
SceneCreationStep ==
    /\ session_dir # <<>>
    /\ ui_current_step = NumSteps - 2
    /\ \E gemini_key \in BOOLEAN, fal_key \in BOOLEAN :
          LET w == SceneCreatorConstruct(disk_dirs, gemini_key, fal_key)
          IN  /\ disk_dirs' = w.dirs
              /\ pm_call' = Call("scene_creation_step", w.raised)
    /\ UNCHANGED <<viewVars, audioVars, extractVars, session_dir, ui_current_step, disk_files, project_info, now,
                   regenVars, fixVars, outfitVars, attachVars>>

----------------------------------------------------------------------------
(* Shot audio: AudioGenerator.generate_shot_audio (video_editing)          *)

\* the longest character_dialogs list of a shot
MaxDialogs == 2

Str_SH1 == <<"S", "H", "1">>
Str_SH10 == <<"S", "H", "1", "0">>
Str_c1 == <<"c", "1">>
Str_c2 == <<"c", "2">>
Str_dialog == <<"_", "d", "i", "a", "l", "o", "g", "_">>
Str_mp3 == <<".", "m", "p", "3">>
Str_narration_mp3 == <<"_", "n", "a", "r", "r", "a", "t", "i", "o", "n">> \o Str_mp3

\* str.strip(): the blanks at both ends dropped
RECURSIVE LStrip(_)
LStrip(s) == IF s # <<>> /\ s[1] = " " THEN LStrip(Tail(s)) ELSE s

RECURSIVE RStrip(_)
RStrip(s) == IF s # <<>> /\ s[Len(s)] = " " THEN RStrip(SubSeq(s, 1, Len(s) - 1)) ELSE s

Strip(s) == RStrip(LStrip(s))

\* f"{shot_id}_{character_id}_dialog_{i+1}.mp3" (i + 1 is the 1-based position)
DialogFilename(shot_id, character_id, pos) ==
    shot_id \o <<"_">> \o character_id \o Str_dialog \o Decimal(pos) \o Str_mp3

\* f"{shot_id}_narration.mp3"
NarrationFilename(shot_id) == shot_id \o Str_narration_mp3

\* the characters handed to the audio generator: c1 has a voice, c2 has none
AudioCharacters ==
    << [id |-> Str_c1, generated_voice_id |-> <<"v", "1">>],
       [id |-> Str_c2, generated_voice_id |-> <<>>] >>

\* AudioGenerator.get_character_voice_id: the first character with the id
get_character_voice_id(character_id, chars) ==
    LET hits == { i \in 1..Len(chars) : chars[i].id = character_id }
    IN  IF hits = {} THEN <<>>
        ELSE chars[CHOOSE i \in hits : \A j \in hits : i <= j].generated_voice_id

\* what one generate_speech call can do: write the file and return True; catch
\* a requests.exceptions.RequestException and return False; or fail with an
\* exception of another class (open()/write() raising OSError), which the
\* except clause does not catch
SpeechOutcomes == {"saved", "request_error", "write_error"}

\* AudioGenerator.generate_speech
generate_speech(w, output_path, outcome) ==
    CASE outcome = "saved" -> [w EXCEPT !.disk = @ \cup {output_path}, !.ok = TRUE]
      [] outcome = "request_error" -> [w EXCEPT !.ok = FALSE]
      [] OTHER -> [w EXCEPT !.ok = FALSE, !.raised = TRUE]

AudioInfo(type, character_id, text, audio_path, sequence) ==
    [type |-> type, character_id |-> character_id, text |-> text, audio_path |-> audio_path, sequence |-> sequence]

AudioFailed(w, error_msg) ==
    [w EXCEPT !.results.errors = Append(@, error_msg), !.results.success = FALSE]

\* the loop of generate_shot_audio over shot_dialog.character_dialogs; an
\* exception leaving generate_speech leaves the loop and the method
RECURSIVE DialogLoop(_, _, _, _, _)
DialogLoop(w, sd, chars, outcomes, i) ==
    IF i > Len(sd.character_dialogs) \/ w.raised THEN w
    ELSE LET cd == sd.character_dialogs[i]
             voice_id == get_character_voice_id(cd.character_id, chars)
             audio_path == DialogFilename(sd.shot_id, cd.character_id, i)
             g == generate_speech([w EXCEPT !.attempted = Append(@, i)], audio_path, outcomes[i])
         IN  IF Strip(cd.dialog) = <<>>
             THEN DialogLoop(w, sd, chars, outcomes, i + 1)
             ELSE IF voice_id = <<>>
             THEN DialogLoop(AudioFailed([w EXCEPT !.attempted = Append(@, i)], <<"no_voice", i>>), sd, chars, outcomes, i + 1)
             ELSE IF g.raised THEN g
             ELSE IF g.ok
             THEN DialogLoop([g EXCEPT !.results.audio_files = Append(@, AudioInfo("dialog", cd.character_id, cd.dialog, audio_path, i))], sd, chars, outcomes, i + 1)
             ELSE DialogLoop(AudioFailed(g, <<"dialog_failed", i>>), sd, chars, outcomes, i + 1)

\* the narration part of generate_shot_audio (sequence 0)
NarrationPart(w, sd, outcome) ==
    LET narration_text == Strip(sd.narration[1])
        narration_path == NarrationFilename(sd.shot_id)
        g == generate_speech([w EXCEPT !.attempted = Append(@, 0)], narration_path, outcome)
    IN  IF g.raised THEN g
        ELSE IF g.ok
        THEN [g EXCEPT !.results.audio_files = Append(@, AudioInfo("narration", <<>>, narration_text, narration_path, 0))]
        ELSE AudioFailed(g, <<"narration_failed", 0>>)

\* list.sort(key=lambda x: x["sequence"]): stable, ascending
RECURSIVE InsertBySequence(_, _)
InsertBySequence(sorted, x) ==
    IF sorted = <<>> \/ sorted[Len(sorted)].sequence <= x.sequence THEN Append(sorted, x)
    ELSE Append(InsertBySequence(SubSeq(sorted, 1, Len(sorted) - 1), x), sorted[Len(sorted)])

RECURSIVE SortBySequence(_)
SortBySequence(files) ==
    IF files = <<>> THEN <<>>
    ELSE InsertBySequence(SortBySequence(SubSeq(files, 1, Len(files) - 1)), files[Len(files)])

\* AudioGenerator.generate_shot_audio: outcomes[i] is what generate_speech
\* does for dialog i, outcomes[0] what it does for the narration
generate_shot_audio(disk, sd, chars, outcomes) ==
    LET w0 == [disk |-> disk, attempted |-> <<>>, ok |-> FALSE, raised |-> FALSE,
               results |-> [shot_id |-> sd.shot_id, audio_files |-> <<>>, success |-> TRUE, errors |-> <<>>]]
        w1 == IF sd.has_dialog /\ sd.character_dialogs # <<>>
              THEN DialogLoop(w0, sd, chars, outcomes, 1) ELSE w0
        w2 == IF ~w1.raised /\ sd.has_narration /\ sd.narration # <<>> /\ sd.narration[1] # <<>> /\ Strip(sd.narration[1]) # <<>>
              THEN NarrationPart(w1, sd, outcomes[0]) ELSE w1
    IN  IF w2.raised THEN w2
        ELSE [w2 EXCEPT !.results.audio_files = SortBySequence(@)]

CharacterDialogs ==
    { [character_id |-> c, character_name |-> c, dialog |-> t] :
        c \in {Str_c1, Str_c2}, t \in { <<" ">>, <<"h", "i">> } }

\* ShotDialog objects: narration is <<>> (None) or <<text>>; the shots of
\* SH1 with every dialog list, those of SH10 with narration only
ShotDialogsOf(ids, dialog_lists) ==
    { [shot_id |-> id, character_dialogs |-> ds, narration |-> n, has_dialog |-> hd, has_narration |-> hn] :
        id \in ids, ds \in dialog_lists,
        n \in { <<>>, << <<" ">> >>, << <<"n">> >> },
        hd \in BOOLEAN, hn \in BOOLEAN }

ShotDialogs ==
    ShotDialogsOf({Str_SH1}, UNION { [1..k -> CharacterDialogs] : k \in 0..MaxDialogs })
        \cup ShotDialogsOf({Str_SH10}, { <<>> })

IdleAudio ==
    /\ shot_dialog = <<>>
    /\ audio_disk = {}
    /\ audio_call = <<>>
    /\ audio_made = {}

\* one call of generate_shot_audio(shot_dialog, characters, output_dir)
GenerateShotAudio ==
    \E outcomes \in [0..Len(shot_dialog.character_dialogs) -> SpeechOutcomes] :
        LET w == generate_shot_audio(audio_disk, shot_dialog, AudioCharacters, outcomes)
        IN  /\ audio_disk' = w.disk
            /\ audio_made' = audio_made \cup { <<w.results.audio_files[k].audio_path, shot_dialog.shot_id>> : k \in 1..Len(w.results.audio_files) }
            /\ audio_call' = [raised |-> w.raised, attempted |-> w.attempted,
                              results |-> IF w.raised THEN <<>> ELSE <<w.results>>]
            /\ UNCHANGED <<viewVars, shot_dialog, extractVars, sessionVars, regenVars, fixVars, outfitVars, attachVars>>

----------------------------------------------------------------------------
(* Location extraction: LocationGenerator.extract_locations_from_scenes    *)

\* the longest scene list handed to the extraction
MaxScenes == 3

Str_SC == <<"S", "C", "_">>
Str_LOC == <<"L", "O", "C", "_">>
Str_sep == <<" ", "-", " ">>
Str_UNKNOWN == <<"U", "N", "K", "N", "O", "W", "N">>

\* LocationGenerator._extract_location_name
_extract_location_name(location) ==
    Strip(Replace(Replace(Split(location, Str_sep)[1], Str_EXT \o <<" ">>, <<>>), Str_INT \o <<" ">>, <<>>))

\* the location_data dict of one scene (the fields copied from Set_Info and
\* Scene_Tone are left out)
LocationData(location_id, location) ==
    LET location_parts == Split(location, Str_sep)
    IN  [location_id |-> location_id,
         name |-> _extract_location_name(location),
         location_type |-> location_parts[1],
         time_of_day |-> IF Len(location_parts) > 1 THEN location_parts[2] ELSE Str_UNKNOWN]

\* the loop of extract_locations_from_scenes; acc.location_map holds the keys
\* of location_map, acc.from the Location string each entry was made from
RECURSIVE ExtractLoop(_, _, _)
ExtractLoop(acc, scenes, i) ==
    IF i > Len(scenes) THEN acc
    ELSE LET scene_info == scenes[i].scene_info
             location == scene_info.Location
             location_id == Replace(scene_info.Scene_ID, Str_SC, Str_LOC)
         IN  IF location # <<>> /\ location_id \notin acc.location_map
             THEN ExtractLoop([locations |-> Append(acc.locations, LocationData(location_id, location)),
                               location_map |-> acc.location_map \cup {location_id},
                               from |-> Append(acc.from, location)], scenes, i + 1)
             ELSE ExtractLoop(acc, scenes, i + 1)

\* LocationGenerator.extract_locations_from_scenes
extract_locations_from_scenes(scenes) ==
    ExtractLoop([locations |-> <<>>, location_map |-> {}, from |-> <<>>], scenes, 1)

Loc_int_room_day == Str_INT \o <<" ", "R", " ", "-", " ", "D">>
Loc_ext_yard == Str_EXT \o <<" ", "Y">>

\* the scene dicts ScriptFormatter.generate_locations builds from the scenes
SceneDicts ==
    { [scene_info |-> [Scene_ID |-> id, Location |-> loc]] :
        id \in {Str_SC_01, Str_SC_02}, loc \in {Loc_int_room_day, Loc_ext_yard, <<>>} }

SceneDictLists == UNION { [1..k -> SceneDicts] : k \in 0..MaxScenes }

IdleExtract ==
    /\ scenes_data = <<>>
    /\ extracted = <<>>
    /\ extracted_from = <<>>

\* ScriptFormatter.generate_locations: the extraction over scenes_data
ExtractLocations ==
    LET r == extract_locations_from_scenes(scenes_data)
    IN  /\ extracted' = <<r.locations>>
        /\ extracted_from' = r.from
        /\ UNCHANGED <<viewVars, scenes_data, audioVars, sessionVars, regenVars, fixVars, outfitVars, attachVars>>

----------------------------------------------------------------------------
(* Video editing: the dialog mapping file, the audio files of a shot, the   *)
(* videos on disk (video_editing, scene_creation/scene_video_generator.py)  *)

\* the longest list of scene mappings saved
MaxMappings == 2

\* str.endswith
EndsWith(s, suffix) ==
    /\ Len(suffix) <= Len(s)
    /\ SubSeq(s, Len(s) - Len(suffix) + 1, Len(s)) = suffix

\* sep.join(parts)
RECURSIVE Join(_, _)
Join(parts, sep) ==
    IF parts = <<>> THEN <<>>
    ELSE IF Len(parts) = 1 THEN parts[1]
    ELSE parts[1] \o sep \o Join(Tail(parts), sep)

\* the characters of file names in code point order
CodePointOrder == <<".">> \o Digits \o UpperCase \o <<"_">> \o LowerCase

CodePoint(c) == CHOOSE i \in 1..Len(CodePointOrder) : CodePointOrder[i] = c

\* a <= b for Python strings
RECURSIVE StrLessEq(_, _)
StrLessEq(a, b) ==
    IF a = <<>> THEN TRUE
    ELSE IF b = <<>> THEN FALSE
    ELSE IF a[1] = b[1] THEN StrLessEq(Tail(a), Tail(b))
    ELSE CodePoint(a[1]) < CodePoint(b[1])

\* sorted(strings)
RECURSIVE Sorted(_)
Sorted(S) ==
    IF S = {} THEN <<>>
    ELSE LET least == CHOOSE a \in S : \A b \in S : StrLessEq(a, b)
         IN  <<least>> \o Sorted(S \ {least})

\* DialogMapper.save_dialog_mappings: the document json.dump writes
save_dialog_mappings(dialog_mappings) ==
    [dialog_mappings |-> dialog_mappings,
     total_scenes |-> Len(dialog_mappings),
     generated_at |-> "{\"timestamp\": \"auto-generated\"}"]

\* data.get(key, []) on a loaded document
GetList(data, key) == IF key \in DOMAIN data THEN data[key] ELSE <<>>

\* VideoAssembler.load_dialog_mappings: <<>> is None, <<list>> the list read
load_dialog_mappings(file) ==
    IF file = <<>> THEN <<>> ELSE << GetList(file[1], "scenes") >>

\* what assembling the scenes that were loaded can come to
AssemblyOutcomes == { "assembled", "no_scenes", "error" }

\* VideoAssembler.assemble_full_video
assemble_full_video(file, outcome) ==
    LET dialog_mappings == load_dialog_mappings(file)
    IN  IF dialog_mappings = <<>> \/ dialog_mappings[1] = <<>>
        THEN [file |-> file, loaded |-> dialog_mappings, success |-> FALSE,
              error |-> "Could not load dialog mappings"]
        ELSE [file |-> file, loaded |-> dialog_mappings, success |-> outcome = "assembled",
              error |-> CASE outcome = "assembled" -> ""
                          [] outcome = "no_scenes" -> "No scenes could be assembled"
                          [] OTHER -> "exception"]

\* VideoAssembler.get_shot_audio_files
get_shot_audio_files(disk, shot_id) ==
    Sorted({ filename \in disk :
                /\ StartsWith(filename, shot_id)
                /\ EndsWith(filename, Str_mp3) \/ EndsWith(filename, <<".", "w", "a", "v">>) })

\* SceneVideoGenerator.list_generated_videos: the files of videos_dir that
\* parse (as a set: the order is by creation time, which is not kept)
list_generated_videos(videos) ==
    LET parts(filename) == Split(Replace(filename, Str_video_mp4, <<>>), <<"_">>)
    IN  { [scene_id |-> parts(filename)[1],
           shot_id |-> Join(Tail(parts(filename)), <<"_">>),
           filename |-> filename] :
            filename \in { f \in DOMAIN videos :
                            /\ videos[f] > 0
                            /\ EndsWith(f, Str_video_mp4)
                            /\ Len(parts(f)) >= 2 } }

\* SceneVideoGenerator.load_existing_generation_results: scene_id -> its videos
load_existing_video_results(videos) ==
    LET listed == list_generated_videos(videos)
    IN  [scene_id \in { v.scene_id : v \in listed } |->
            { v \in listed : v.scene_id = scene_id }]

\* a shot with narration only, as the mappings saved hold it
NarrationShots ==
    { d \in ShotDialogs : /\ d.shot_id = Str_SH1 /\ d.character_dialogs = <<>> /\ ~d.has_dialog
                          /\ d.has_narration /\ d.narration = << <<"n">> >> }

\* SceneDialogMapping objects (mapping.dict())
SceneDialogMappings ==
    { [scene_id |-> id, shots |-> shots] :
        id \in {Str_SC_01, Str_SC_02},
        shots \in { <<>> } \cup { <<d>> : d \in NarrationShots } }

DialogMappingLists == UNION { [1..k -> SceneDialogMappings] : k \in 0..MaxMappings }

IdleView ==
    /\ dialog_file = <<>>
    /\ assembly_result = <<>>
    /\ audio_listing = <<>>
    /\ existing_videos = <<>>

\* generate_dialog_mapping_workflow: the mappings generated are saved, when
\* there are any and the file can be written
GenerateDialogMappingWorkflow ==
    \E dialog_mappings \in DialogMappingLists, written \in BOOLEAN :
        /\ dialog_file' = IF dialog_mappings # <<>> /\ written
                          THEN << save_dialog_mappings(dialog_mappings) >>
                          ELSE dialog_file
        /\ UNCHANGED <<assembly_result, audio_listing, existing_videos, audioVars, extractVars, sessionVars, regenVars, fixVars, outfitVars, attachVars>>

\* one call of assemble_full_video
AssembleFullVideo ==
    \E outcome \in AssemblyOutcomes :
        /\ assembly_result' = << assemble_full_video(dialog_file, outcome) >>
        /\ UNCHANGED <<dialog_file, audio_listing, existing_videos, audioVars, extractVars, sessionVars, regenVars, fixVars, outfitVars, attachVars>>

\* one call of get_shot_audio_files(shot_id) by assemble_shot
GetShotAudioFiles ==
    \E shot_id \in {Str_SH1, Str_SH10} :
        /\ audio_listing' = << [shot_id |-> shot_id, made |-> audio_made,
                                files |-> get_shot_audio_files(audio_disk, shot_id)] >>
        /\ UNCHANGED <<dialog_file, assembly_result, existing_videos, audioVars, extractVars, sessionVars, regenVars, fixVars, outfitVars, attachVars>>

\* video_scene_generation_step: scene_creator.load_existing_video_results()
LoadExistingVideoResults ==
    /\ existing_videos' = << [videos |-> video_files,
                              grouped |-> load_existing_video_results(video_files)] >>
    /\ UNCHANGED <<dialog_file, assembly_result, audio_listing, audioVars, extractVars, sessionVars, regenVars, fixVars, outfitVars, attachVars>>

----------------------------------------------------------------------------
(* Specifications                                                          *)

InitFix ==
    /\ IdleView
    /\ IdleAudio
    /\ IdleExtract
    /\ \E ids \in CharacterLists : characters = AsCharacters(ids)
    /\ fix_input = characters
    /\ fix_done = FALSE
    /\ IdleOutfit
    /\ IdleRegen
    /\ IdleSession
    /\ IdleAttach

NextFix == FixDuplicateCharacterIds

SpecFix == InitFix /\ [][NextFix]_vars

InitOutfit ==
    /\ IdleView
    /\ IdleAudio
    /\ IdleExtract
    /\ IdleOutfit
    /\ IdleRegen
    /\ IdleSession
    /\ IdleFix
    /\ IdleAttach

InitAttachCharacters ==
    /\ IdleView
    /\ IdleAudio
    /\ IdleExtract
    /\ characters \in RegistriesOf(RegistryCharacters)
    /\ fix_input = <<>>
    /\ fix_done = FALSE
    /\ IdleOutfit
    /\ IdleRegen
    /\ IdleSession
    /\ locations \in FewLocationRegistries
    /\ script \in CharacterScripts
    /\ attach_state = "none"

NextAttachCharacters ==
    \/ AttachCharacters
    \/ AttachAll

SpecAttachCharacters == InitAttachCharacters /\ [][NextAttachCharacters]_vars

InitAttachLocations ==
    /\ IdleView
    /\ IdleAudio
    /\ IdleExtract
    /\ IdleFix
    /\ IdleOutfit
    /\ IdleRegen
    /\ IdleSession
    /\ locations \in RegistriesOf(RegistryLocations)
    /\ script \in LocationScripts
    /\ attach_state = "none"

NextAttachLocations ==
    \/ AttachLocations
    \/ AttachAll
    \/ SaveLocations

SpecAttachLocations == InitAttachLocations /\ [][NextAttachLocations]_vars

InitRegen ==
    /\ IdleView
    /\ IdleAudio
    /\ IdleExtract
    /\ IdleFix
    /\ IdleOutfit
    /\ IdleAttach
    /\ IdleSession
    /\ \E d \in SessionDirectories :
          /\ image_files = [p \in ImagePaths |->
                IF \E key \in ShotKeys : p = ImageFilename(key[1], key[2])
                                            /\ d[key] # "none" THEN 1 ELSE 0]
          /\ video_files = [p \in VideoPaths |->
                IF \E key \in ShotKeys : p = VideoFilename(key[1], key[2])
                                            /\ d[key] = "video" THEN 1 ELSE 0]
    /\ results_json = <<>>
    /\ generation_progress =
          load_existing_generation_results(results_json, NewGenerationProgress)
    /\ regen_op = [ op |-> "init", scene_id |-> <<>>, shot_id |-> <<>>,
                    force |-> FALSE, calls |-> {}, images |-> {}, runs |-> 0 ]

NextRegen ==
    \/ SceneCreatorInit
    \/ GenerateSceneImages
    \/ GenerateAllSceneImages
    \/ RegenerateSingleShot
    \/ GenerateSceneVideos
    \/ RegenerateSingleShotVideo
    \/ RegenerateFromView
    \/ LoadExistingVideoResults

SpecRegen == InitRegen /\ [][NextRegen]_vars

InitSession ==
    /\ IdleView
    /\ IdleAudio
    /\ IdleExtract
    /\ IdleFix
    /\ IdleOutfit
    /\ IdleAttach
    /\ IdleRegen
    /\ session_dir = <<>>
    /\ ui_current_step = 0
    /\ \/ /\ disk_dirs = {}
          /\ disk_files = {}
          /\ project_info = MissingInfo
       \/ /\ disk_dirs = SessionDirs
          /\ disk_files \in { {}, { ScriptFile, FormattedScriptFile, CharactersFile } }
          /\ project_info \in StoredInfos
    /\ now = 0
    /\ pm_call = Call("start", FALSE)

NextSession ==
    \/ CreateSession
    \/ LoadSession
    \/ NavigatePrevious
    \/ NavigateNext
    \/ ProceedToFinalAssembly
    \/ SaveScriptData
    \/ SaveFormattedScript
    \/ SaveCharacters
    \/ SaveData
    \/ GetAvailableSessions
    \/ SceneCreationStep

SpecSession == InitSession /\ [][NextSession]_vars

InitAudio ==
    /\ IdleView
    /\ IdleExtract
    /\ IdleFix
    /\ IdleOutfit
    /\ IdleAttach
    /\ IdleRegen
    /\ IdleSession
    /\ shot_dialog \in ShotDialogs
    /\ audio_disk = {}
    /\ audio_call = <<>>
    /\ audio_made = {}

NextAudio ==
    \/ GenerateShotAudio
    \/ GetShotAudioFiles

SpecAudio == InitAudio /\ [][NextAudio]_vars

InitExtract ==
    /\ IdleView
    /\ IdleAudio
    /\ IdleFix
    /\ IdleOutfit
    /\ IdleAttach
    /\ IdleRegen
    /\ IdleSession
    /\ scenes_data \in SceneDictLists
    /\ extracted = <<>>
    /\ extracted_from = <<>>

NextExtract == ExtractLocations

SpecExtract == InitExtract /\ [][NextExtract]_vars

InitShot ==
    /\ IdleView
    /\ IdleAudio
    /\ IdleExtract
    /\ IdleRegen
    /\ IdleSession
    /\ IdleFix
    /\ IdleAttach
    /\ \E w \in InitializedTrackers \cup TrackersAfterScene :
          /\ character_outfits = w.tr.co
          /\ outfit_order = w.tr.order
          /\ scene_outfit_changes = w.tr.changes
          /\ supplied = w.sup
    /\ shot_call = <<>>

NextShot == TrackShotOutfitsReturned

SpecShot == InitShot /\ [][NextShot]_vars

InitDialog ==
    /\ IdleView
    /\ IdleAudio
    /\ IdleExtract
    /\ IdleFix
    /\ IdleOutfit
    /\ IdleAttach
    /\ IdleRegen
    /\ IdleSession

NextDialog ==
    \/ GenerateDialogMappingWorkflow
    \/ AssembleFullVideo

SpecDialog == InitDialog /\ [][NextDialog]_vars

\* character_generation_step repairs the ids of the character list that
\* attach_reference_images_to_shots resolves the script's ids against
InitFixAttach ==
    /\ IdleView
    /\ IdleAudio
    /\ IdleExtract
    /\ \E ids \in CharacterLists : characters = AsCharacters(ids)
    /\ fix_input = characters
    /\ fix_done = FALSE
    /\ IdleOutfit
    /\ IdleRegen
    /\ IdleSession
    /\ locations = <<>>
    /\ script \in IdScripts
    /\ attach_state = "none"

NextFixAttach ==
    \/ FixDuplicateCharacterIds
    \/ AttachCharacters

SpecFixAttach == InitFixAttach /\ [][NextFixAttach]_vars

NextOutfit ==
    \/ InitializeCharacterOutfits
    \/ TrackSceneOutfits
    \/ TrackShotOutfits
    \/ ProcessFormattedScript

SpecOutfit == InitOutfit /\ [][NextOutfit]_vars

----------------------------------------------------------------------------
(* Claims                                                                  *)

\* C3: after fix_duplicate_character_ids has run, all character ids of the
\* list are pairwise distinct.
C3_UniqueAfterFix == fix_done => PairwiseDistinctIds(characters)

\* C1: current_outfit of every tracked character equals the outfit most
\* recently supplied explicitly for it by a processed scene or shot entry, or
\* its role-derived initial outfit if none was supplied.
C1_CurrentIsLastSupplied ==
    \A c \in DOMAIN character_outfits :
        character_outfits[c].current_outfit = supplied[c]

\* Resolution, stated without the loops -----------------------------------

\* some registry entry answers the reference: by its id, or by a name that
\* contains the reference (which covers the equal and the prefix case)
KnownCharacter(chars, char_ref) ==
    \E i \in 1..Len(chars) :
        \/ chars[i].id # <<>> /\ chars[i].id = char_ref
        \/ Contains(Lower(chars[i].name), Lower(char_ref))

\* some registry entry with an id answers the scene's location string
KnownLocation(locs, scene_location) ==
    \E i \in 1..Len(locs) :
        /\ locs[i].location_id # <<>>
        /\ \/ Contains(Lower(scene_location), Lower(locs[i].name))
           \/ \E p \in 1..Len(LocationNameParts(scene_location)) :
                 Contains(Lower(locs[i].name),
                          Lower(LocationNameParts(scene_location)[p]))

AllShots(tree) ==
    UNION { { tree[s].shots[k] : k \in 1..Len(tree[s].shots) } : s \in 1..Len(tree) }

CharactersAttached == attach_state \in { "characters", "all" }
LocationsAttached == attach_state \in { "locations", "all" }

\* C8: an empty reference resolves to not-found for every registry: a shot
\* whose only focus character is the empty string gets no character attached.
C8_EmptyReferenceNotFound ==
    CharactersAttached =>
        \A shot \in AllShots(script) :
            shot.Focus_Characters = << <<>> >> =>
                shot.focus_character_images = << <<>> >>

\* C9: a character whose name equals the reference case-insensitively is
\* returned in preference to one that matches only by containment or prefix,
\* wherever the two sit in the registry.
C9_ExactNameBeforePartial ==
    CharactersAttached =>
        \A shot \in AllShots(script) :
            \A char_ref \in CharacterRefs :
                ( /\ shot.Focus_Characters = <<char_ref>>
                  /\ char_ref # <<>>
                  /\ \A i \in 1..Len(characters) : characters[i].id # char_ref
                  /\ \E i \in 1..Len(characters) :
                        Lower(characters[i].name) = Lower(char_ref) )
                => /\ Len(shot.focus_character_images[1]) = 1
                   /\ Lower(shot.focus_character_images[1][1].character_name)
                        = Lower(char_ref)

CountKnown(chars, focus) ==
    Cardinality({ i \in 1..Len(focus) : KnownCharacter(chars, focus[i]) })

\* C10: a resolution miss is not an error. After attachment every shot has
\* its focus_character_images set, holding one entry per reference that some
\* registry entry answers and none for a reference that none answers (so [] when
\* the shot's only focus character is unknown), also in the shots that follow
\* a miss; a scene whose location no registry entry answers gets no
\* location_reference, and the scenes after it are still attached.
C10_MissIsNotAnError ==
    /\ CharactersAttached =>
          \A shot \in AllShots(script) :
              /\ shot.focus_character_images # <<>>
              /\ Len(shot.focus_character_images[1])
                    = CountKnown(characters, shot.Focus_Characters)
    /\ attach_state = "all" =>
          \A s \in 1..Len(script) :
              /\ ~KnownLocation(locations, script[s].Location) =>
                    /\ script[s].location_reference = <<>>
                    /\ \A k \in 1..Len(script[s].shots) :
                          script[s].shots[k].location_reference = <<>>
              /\ KnownLocation(locations, script[s].Location) =>
                    script[s].location_reference # <<>>

\* a shot with an unknown focus character ahead of a known one, in a scene
\* whose location is unknown and which is followed by a scene that is attached
C10_Witness_MissThenHit ==
    /\ attach_state = "all"
    /\ \E shot \in AllShots(script) :
          /\ Len(shot.Focus_Characters) = 2
          /\ ~KnownCharacter(characters, shot.Focus_Characters[1])
          /\ Len(shot.focus_character_images[1]) = 1
    /\ \E shot \in AllShots(script) :
          /\ Len(shot.Focus_Characters) = 1
          /\ shot.focus_character_images = << <<>> >>
    /\ script[1].location_reference = <<>>
    /\ script[2].location_reference # <<>>

\* C4: after location attachment, in every scene whose location was resolved,
\* every shot carries a location_reference equal by value to the scene's own,
\* and so to that of every sibling shot.
C4_ShotsShareSceneLocation ==
    LocationsAttached =>
        \A s \in 1..Len(script) :
            KnownLocation(locations, script[s].Location) =>
                /\ script[s].location_reference # <<>>
                /\ \A k \in 1..Len(script[s].shots) :
                      script[s].shots[k].location_reference
                          = script[s].location_reference

\* a resolved scene of two shots, attached
C4_Witness_TwoShotsAttached ==
    /\ LocationsAttached
    /\ KnownLocation(locations, script[1].Location)
    /\ Len(script[1].shots) = 2
    /\ script[1].shots[2].location_reference # <<>>

\* C2: a shot whose image file exists at <scene_id>_<shot_id>_scene.png and
\* for which no regeneration was asked is not generated again: no generator
\* call is issued for it and its file is left as it is.
C2_ExistingFileNotRegenerated ==
    [][\A key \in ShotKeys :
          ( /\ image_files[ImageFilename(key[1], key[2])] > 0
            /\ ~regen_op'.force )
          => /\ key \notin regen_op'.calls
             /\ image_files'[ImageFilename(key[1], key[2])]
                  = image_files[ImageFilename(key[1], key[2])]]_vars

\* C5: right after the ledger is loaded, a shot is recorded as generated in
\* it exactly when its image file is present on disk.
C5_LedgerAgreesWithDisk ==
    regen_op.op = "init" =>
        \A key \in ShotKeys :
            generation_progress.generated_images[key[2]] # <<>>
                <=> image_files[ImageFilename(key[1], key[2])] > 0

\* C7: a single-shot regeneration of shot S (image or video) leaves the image
\* file, the video file and the ledger entry of every other shot of the same
\* scene unchanged.
C7_SiblingsUnchanged ==
    [][regen_op'.op \in { "regenerate_single_shot", "regenerate_single_shot_video" }
       => \A key \in ShotKeys :
             ( /\ <<key[1]>> = regen_op'.scene_id
               /\ <<key[2]>> # regen_op'.shot_id )
             => /\ image_files'[ImageFilename(key[1], key[2])]
                     = image_files[ImageFilename(key[1], key[2])]
                /\ video_files'[VideoFilename(key[1], key[2])]
                     = video_files[VideoFilename(key[1], key[2])]
                /\ generation_progress'.generated_images[key[2]]
                     = generation_progress.generated_images[key[2]]]_vars

\* a shot's image regenerated over an existing file, next to a sibling that
\* has its file and its ledger entry
C7_Witness_RegeneratedNextToSibling ==
    /\ regen_op.op = "regenerate_single_shot"
    /\ regen_op.scene_id = <<Str_SC_01>>
    /\ regen_op.shot_id = <<Str_SC1_SH1>>
    /\ image_files[ImageFilename(Str_SC_01, Str_SC1_SH1)] > 1
    /\ generation_progress.generated_images[Str_SC1_SH1] # <<>>
    /\ generation_progress.generated_images[Str_SC1_SH1][1].status = "regenerated"
    /\ image_files[ImageFilename(Str_SC_01, Str_SC1_SH2)] > 0
    /\ generation_progress.generated_images[Str_SC1_SH2] # <<>>

\* C11: the duplicate-fix pass rewrites an entry's id only if an earlier entry
\* of the input list carried the same original id; the first occurrence of
\* each original id keeps its id.
C11_FirstOccurrenceUnchanged ==
    fix_done =>
        \A i \in 1..Len(characters) :
            characters[i].id # fix_input[i].id =>
                \E j \in 1..(i - 1) : fix_input[j].id = fix_input[i].id

SetStageCalls == { "previous", "next", "proceed" }

SaveArtifactCalls ==
    { "save_script_data", "save_formatted_script", "save_characters", "save_data" }

\* C13: every save of an artifact (script, formatted script, characters,
\* locations) and every set_stage call that returns rewrites
\* metadata/project_info.json with a refreshed last_updated.
C13_MetadataRewrittenOnEveryCall ==
    [][( /\ pm_call'.op \in SetStageCalls \cup SaveArtifactCalls
         /\ ~pm_call'.raised )
       => /\ project_info'.state = "valid"
          /\ project_info'.doc.last_updated = <<now'>>
          /\ project_info'.doc.last_updated # project_info.doc.last_updated]_vars

\* C14: with a session active, no operation that reads the metadata raises,
\* whether project_info.json is absent or not valid JSON.
C14_MetadataProblemsNeverRaise ==
    ( /\ session_dir # <<>>
      /\ pm_call.op \in SetStageCalls \cup SaveArtifactCalls
                          \cup { "load_session", "get_available_sessions" } )
    => ~pm_call.raised

\* C15: a set_stage call, forward or backward, leaves every per-stage
\* completion flag of the metadata with the value it had before.
C15_FlagsSurviveSetStage ==
    [][pm_call'.op \in SetStageCalls
       => \A flag \in CompletionFlags :
             project_info'.doc[flag] = project_info.doc[flag]]_vars

\* the pointer moved backward and written, next to a flag that is set
C15_Witness_BackwardWithFlag ==
    /\ pm_call.op = "previous"
    /\ ~pm_call.raised
    /\ project_info.state = "valid"
    /\ project_info.doc.current_step = <<ui_current_step>>
    /\ project_info.doc.last_updated = <<now>>
    /\ \E flag \in CompletionFlags : project_info.doc[flag] = <<TRUE>>

\* C16: the in-memory and the persisted stage pointer lie in [0, N - 1].
C16_StagePointerInRange ==
    /\ ui_current_step \in 0..(NumSteps - 1)
    /\ get_current_step(<<"session">>, project_info) \in 0..(NumSteps - 1)

\* the pointer set forward to the last stage and then set backward, written
\* both times
C16_Witness_ForwardThenBackward ==
    /\ pm_call.op = "previous"
    /\ ~pm_call.raised
    /\ ui_current_step = NumSteps - 2
    /\ project_info.state = "valid"
    /\ project_info.doc.current_step = <<NumSteps - 2>>
    /\ project_info.doc.last_updated = <<now>>
    /\ now > 1

\* C17: scene creation attempted without the formatted script, the characters
\* or the locations leaves directories, files, metadata and stage pointer as
\* they were.
C17_MissingPrerequisiteChangesNothing ==
    [][( /\ pm_call'.op = "scene_creation_step"
         /\ ~PrerequisitesMet(disk_files) )
       => /\ disk_dirs' = disk_dirs
          /\ disk_files' = disk_files
          /\ project_info' = project_info
          /\ ui_current_step' = ui_current_step
          /\ session_dir' = session_dir]_vars

\* C19: after a batch over a scene, each shot whose generation failed, by an
\* error or by a response without image data, has an entry of that batch in
\* the ledger's failed_generations.
C19_EveryFailureRecorded ==
    [][regen_op'.op = "generate_scene_images"
       => \A key \in regen_op'.calls :
             image_files'[ImageFilename(key[1], key[2])]
                 = image_files[ImageFilename(key[1], key[2])]
             => \E i \in (Len(generation_progress.failed_generations) + 1)
                            ..Len(generation_progress'.failed_generations) :
                   /\ generation_progress'.failed_generations[i].shot_id = key[2]
                   /\ generation_progress'.failed_generations[i].scene_id = key[1]]_vars

\* the units of a shot's audio batch: the positions of the dialogs that have
\* text, and 0 for a narration that has text
AudioUnits(sd) ==
    (IF sd.has_dialog
     THEN { i \in 1..Len(sd.character_dialogs) : Strip(sd.character_dialogs[i].dialog) # <<>> }
     ELSE {})
    \cup (IF sd.has_narration /\ sd.narration # <<>> /\ Strip(sd.narration[1]) # <<>> THEN {0} ELSE {})

\* C18: whatever happens to one unit of a batch, the batch call returns
\* normally and every unit of the batch has been attempted.
C18_UnitFailureNeverAbortsBatch ==
    audio_call # <<>>
    => /\ ~audio_call.raised
       /\ \A u \in AudioUnits(shot_dialog) :
             \E k \in 1..Len(audio_call.attempted) : audio_call.attempted[k] = u

\* C20: the extraction never returns two Location entities made from the
\* same scene Location string.
C20_OneLocationPerString ==
    \A i, j \in 1..Len(extracted_from) :
        extracted_from[i] = extracted_from[j] => i = j

\* the registry entries that match a reference in the same way: by id when
\* some entry carries the reference as its id, else by name
EqualMatches(chars, char_ref) ==
    LET by_id == { i \in 1..Len(chars) : chars[i].id # <<>> /\ chars[i].id = char_ref }
        by_name == { i \in 1..Len(chars) : NameMatches(chars[i], char_ref) }
    IN  IF by_id # {} THEN by_id ELSE by_name

\* the focus_character_images of a shot when, of the entries that match a
\* reference in the same way, the first in registry order is returned
RECURSIVE FirstOfEqualsImages(_, _, _)
FirstOfEqualsImages(chars, focus_characters, i) ==
    IF i > Len(focus_characters) THEN <<>>
    ELSE LET equals == EqualMatches(chars, focus_characters[i])
             first == CHOOSE k \in equals : \A j \in equals : k <= j
         IN  (IF equals # {} THEN <<CharacterImage(chars[first])>> ELSE <<>>)
                \o FirstOfEqualsImages(chars, focus_characters, i + 1)

\* C21: when several registry entries match a reference equally well, the one
\* attached is the one that comes first in the registry.
C21_FirstInRegistryOrderWins ==
    CharactersAttached =>
        \A shot \in AllShots(script) :
            shot.focus_character_images
                = << FirstOfEqualsImages(characters, shot.Focus_Characters, 1) >>

\* a focus reference that some tracked character's name answers
NameTracked(co, char_name) ==
    \E c \in DOMAIN co : Contains(Lower(co[c].character_name), Lower(char_name))

\* C22: a character referenced in a shot and absent from the tracker is
\* skipped: track_shot_outfits returns, an absent shot-level entry comes back
\* as it was given (no outfit written into it), no entry is made for an absent
\* focus reference, and no tracked state changes but those of the tracked
\* characters the shot's entries name.
C22_AbsentCharacterSkipped ==
    [][shot_call' # <<>>
       => LET shot == shot_call'[1]
              out == shot_call'[2]
          IN  /\ shot.shot_characters # <<>>
                 => /\ Len(out) = Len(shot.shot_characters)
                    /\ \A i \in 1..Len(out) :
                          shot.shot_characters[i].character_id
                                \notin DOMAIN character_outfits
                          => out[i] = shot.shot_characters[i]
              /\ shot.shot_characters = <<>>
                 => /\ Len(out) = Cardinality({ i \in 1..Len(shot.focus_characters) :
                                    NameTracked(character_outfits, shot.focus_characters[i]) })
                    /\ \A k \in 1..Len(out) :
                          NameTracked(character_outfits, out[k].character_name)
                    /\ character_outfits' = character_outfits
              /\ DOMAIN character_outfits' = DOMAIN character_outfits
              /\ \A c \in DOMAIN character_outfits :
                    (\A i \in 1..Len(shot.shot_characters) :
                        shot.shot_characters[i].character_id # c)
                    => character_outfits'[c] = character_outfits[c]]_vars

\* a shot-level entry without an outfit for a character the tracker does not
\* hold, returned as given by a tracker that tracks somebody else
C22_Witness_AbsentEntryReturned ==
    /\ shot_call # <<>>
    /\ character_outfits # <<>>
    /\ Len(shot_call[1].shot_characters) = 1
    /\ shot_call[1].shot_characters[1].character_id \notin DOMAIN character_outfits
    /\ shot_call[1].shot_characters[1].outfit_description = ""
    /\ shot_call[2] = shot_call[1].shot_characters

\* the tracker's ids as the characters of a reference
IdChars(char_id) ==
    CASE char_id = "char_01" -> FormatCharId(1)
      [] char_id = "char_02" -> FormatCharId(2)
      [] OTHER -> <<>>

\* the tracked characters as the registry list the attachment is given
TrackedRegistry ==
    [i \in 1..Len(outfit_order) |->
        [id |-> IdChars(outfit_order[i]),
         name |-> character_outfits[outfit_order[i]].character_name]]

\* the ids the attachment's resolver selects for a list of references
RECURSIVE ResolvedIds(_, _, _)
ResolvedIds(chars, focus_characters, i) ==
    IF i > Len(focus_characters) THEN <<>>
    ELSE LET char_found == ResolveCharacter(chars, focus_characters[i])
         IN  (IF char_found # <<>> THEN <<char_found[1].id>> ELSE <<>>)
                \o ResolvedIds(chars, focus_characters, i + 1)

\* C23: for a shot without shot-level entries, the characters the tracker
\* makes entries for are those the attachment's resolver selects for the same
\* references against the same registry.
C23_SameResolverAsAttachment ==
    (shot_call # <<>> /\ shot_call[1].shot_characters = <<>>)
    => [k \in 1..Len(shot_call[2]) |-> IdChars(shot_call[2][k].character_id)]
          = ResolvedIds(TrackedRegistry, shot_call[1].focus_characters, 1)

\* C24: a shot-level entry of a tracked character that supplies no outfit
\* comes back with the character's tracked outfit as its outfit_description
\* and "same as scene outfit" as its outfit_continuity.
C24_TrackedOutfitFillsEntry ==
    shot_call # <<>>
    => \A i \in 1..Len(shot_call[1].shot_characters) :
          ( /\ shot_call[1].shot_characters[i].character_id \in DOMAIN character_outfits
            /\ shot_call[1].shot_characters[i].outfit_description = "" )
          => /\ shot_call[2][i].outfit_description
                  = character_outfits[shot_call[1].shot_characters[i].character_id].current_outfit
             /\ shot_call[2][i].outfit_continuity = "same as scene outfit"

\* the tracked outfit is one a scene supplied, and the entry received it
C24_Witness_SceneOutfitCopied ==
    /\ shot_call # <<>>
    /\ Len(shot_call[1].shot_characters) = 1
    /\ shot_call[1].shot_characters[1].character_id = "char_01"
    /\ shot_call[1].shot_characters[1].outfit_description = ""
    /\ "char_01" \in DOMAIN character_outfits
    /\ character_outfits["char_01"].current_outfit = "red kurta"
    /\ shot_call[2][1].outfit_description = "red kurta"
    /\ shot_call[2][1].outfit_continuity = "same as scene outfit"

\* C25: whenever a mapping for at least one scene was saved, assemble_full_video
\* reads back the list of scene mappings that was saved and does not stop
\* with "Could not load dialog mappings".
C25_SavedMappingsLoadBack ==
    (assembly_result # <<>> /\ assembly_result[1].file # <<>>
        /\ Len(assembly_result[1].file[1].dialog_mappings) >= 1)
    => /\ assembly_result[1].loaded = << assembly_result[1].file[1].dialog_mappings >>
       /\ assembly_result[1].error # "Could not load dialog mappings"

\* C29: get_shot_audio_files(shot_id) returns the audio files generated for
\* that shot and no file generated for another shot.
C29_OnlyTheShotsOwnAudio ==
    audio_listing # <<>>
    => LET call == audio_listing[1]
       IN  { call.files[k] : k \in 1..Len(call.files) }
              = { made[1] : made \in { m \in call.made : m[2] = call.shot_id } }

\* the image files of scene_creation/images that belong to a shot
ShotImageFiles(files, shot_id) ==
    { p \in DOMAIN files : files[p] > 0 /\ EndsWith(p, <<"_">> \o shot_id \o Str_scene_png) }

\* C27: a regeneration started from the generated-images view that succeeds
\* writes the shot's canonical file <scene_id>_<shot_id>_scene.png, and
\* afterwards that file is the only image file of the shot
C27_ViewRegenerationWritesCanonicalPath ==
    [][ (regen_op'.op = "regenerate_from_view" /\ image_files' # image_files) =>
            \A key \in ShotKeys :
                key[2] = regen_op'.shot_id[1] =>
                    /\ image_files'[ImageFilename(key[1], key[2])]
                          = image_files[ImageFilename(key[1], key[2])] + 1
                    /\ ShotImageFiles(image_files', key[2])
                          = { ImageFilename(key[1], key[2]) } ]_vars

\* C28: every video file <scene_id>_<shot_id>_video.mp4 of the storyboard that
\* is on disk is listed under its own scene id with its own shot id
C28_VideoNamesRoundTrip ==
    existing_videos # <<>> =>
        \A key \in ShotKeys :
            existing_videos[1].videos[VideoFilename(key[1], key[2])] > 0 =>
                /\ key[1] \in DOMAIN existing_videos[1].grouped
                /\ \E v \in existing_videos[1].grouped[key[1]] :
                       /\ v.filename = VideoFilename(key[1], key[2])
                       /\ v.shot_id = key[2]

\* C30: once location attachment has run, on a fresh tree or on one attached
\* before, a scene or shot carries a location_reference only if the scene's
\* location resolves against the current registry, and the reference is the
\* current data of the location it resolves to
C30_NoStaleLocationReference ==
    LocationsAttached =>
        \A s \in 1..Len(script) :
            LET matched_location == ResolveLocation(locations, script[s].Location)
                Current(ref) ==
                    ref # <<>> =>
                        /\ matched_location # <<>>
                        /\ ref = <<LocationRef(matched_location[1])>>
            IN  /\ Current(script[s].location_reference)
                /\ \A k \in 1..Len(script[s].shots) :
                       Current(script[s].shots[k].location_reference)

\* the entries of a character list that carry an id
WithId(chars, char_id) == { i \in 1..Len(chars) : chars[i].id = char_id }

\* C26: after the repair and an attachment, a shot's reference by id to a
\* character whose id was unique before the repair resolves to that same
\* character
C26_RepairKeepsReferences ==
    (fix_done /\ attach_state = "characters") =>
        \A s \in 1..Len(script) : \A k \in 1..Len(script[s].shots) :
            LET shot == script[s].shots[k]
            IN  \A r \in 1..Len(shot.Focus_Characters) :
                    \A i \in WithId(fix_input, shot.Focus_Characters[r]) :
                        WithId(fix_input, shot.Focus_Characters[r]) = {i} =>
                            /\ shot.focus_character_images # <<>>
                            /\ \E j \in 1..Len(shot.focus_character_images[1]) :
                                   shot.focus_character_images[1][j].character_name
                                       = fix_input[i].name
                            /\ \A j \in 1..Len(shot.focus_character_images[1]) :
                                   shot.focus_character_images[1][j].character_name
                                       = fix_input[i].name

IsPrefix(a, b) == Len(a) <= Len(b) /\ SubSeq(b, 1, Len(a)) = a

\* every recorded entry stays where it is, unaltered
AppendOnlyStep ==
    \A c \in DOMAIN character_outfits :
        /\ c \in DOMAIN character_outfits'
        /\ IsPrefix(character_outfits[c].outfit_history,
                    character_outfits'[c].outfit_history)

\* the entries carry the sequence numbers 0, 1, 2, ... in order
SequenceNumbered(co) ==
    \A c \in DOMAIN co :
        \A i \in 1..Len(co[c].outfit_history) :
            co[c].outfit_history[i].timestamp = i - 1

====
